---- MODULE Spec2Model ----
(***************************************************************************)
(* Model of the QPF backend core: the episodic MemoryGraph (event store),  *)
(* its JSON persistence, the per-user Field State files, the chat turn of  *)
(* QPFAssistant and the sensor sampler thread.                             *)
(***************************************************************************)
EXTENDS Integers, Sequences, FiniteSets, TLC

VARIABLES
    graph,        \* MemoryGraph.graph: the networkx DiGraph of the store under test
    err,          \* exception raised by the last MemoryGraph call ("none" if it returned)
    memoryFile,   \* content of q_memory.json
    savedGraph,   \* the graph the content of memoryFile was saved from
    loaded,       \* a fresh MemoryGraph after load_json, with the graph its file was saved from
    calls,        \* number of MemoryGraph calls made so far (SpecCrash: of turns started)
    weightsFile,  \* content of qpf_weights.json
    pc,           \* where each /chat request stands in chat_endpoint (SpecCrash: where the process stands)
    clock,        \* the wall clock read by utcnow()
    nextUuid,     \* source of fresh uuid4 event ids
    restarts,     \* number of process restarts so far
    turns,        \* history: for every executed chat turn, what it loaded and persisted
    field,        \* (w, psi, W) of the QPFAssistant whose turn is in progress
    writing,      \* the file save in progress, with the content before and after it
    threads,      \* position of each thread that is inside MemoryGraph.add_event
    cache,        \* the lru_cache of ContextualRetriever.retrieve_semantic, most recent first
    users,        \* the in-memory Event Graph (QPFAssistant.mg) of every user
    answer,       \* the last query made, with what it returned or raised
    subscribers,  \* blackboard._subscribers: the patterns in insertion order, with their listeners
    stop_event,   \* MetaTicker._stop_event: whether it is set
    session,      \* the tuning attributes of the QPFAssistant: N, D, alpha, S_crit, lambda_vec, F
    self_model,   \* SelfModel: its memories and arc lists
    contextFile   \* content of the file at SelfModel.path

storeVars == <<graph, err, savedGraph, loaded, calls>>
busVars == <<subscribers, stop_event>>
selfVars == <<session, self_model, contextFile>>
queryVars == <<cache, users, answer, busVars, selfVars>>
serverVars == <<weightsFile, pc, clock, nextUuid, restarts, turns, field, writing, threads,
                queryVars>>
vars == <<graph, err, memoryFile, savedGraph, loaded, calls,
          weightsFile, pc, clock, nextUuid, restarts, turns, field, writing, threads,
          cache, users, answer, subscribers, stop_event, session, self_model, contextFile>>

(***************************************************************************)
(* Bounds and input domains                                                *)
(***************************************************************************)
MaxCalls == 4
MaxRequests == 2
MaxClock == 2
MaxRestarts == 1
MaxTurns == 3
MaxK == 2
maxsize == 2            \* stands for lru_cache(maxsize=128)

Ids == {"e1", "e2", "e3"}
AbsentId == "zz"
Relations == {"causal"}

\* datetime values: wall-clock seconds, microseconds, tzinfo.  A naive
\* datetime has tz = "naive"; an aware one carries its UTC offset.
NaiveTimes == { [wall |-> 0, us |-> 0, tz |-> "naive"],
                [wall |-> 1, us |-> 5, tz |-> "naive"] }
AwareTimes == { [wall |-> 3600, us |-> 0, tz |-> "+00:00"],
                [wall |-> 7200, us |-> 5, tz |-> "+01:00"] }

(***************************************************************************)
(* Python values held in an event payload, and the JSON values json.dump   *)
(* writes for them.                                                        *)
(***************************************************************************)
PyStr(s)   == [py |-> "str", v |-> s]
PyFloat(s) == [py |-> "float", v |-> s]
PyInt(s)   == [py |-> "int", v |-> s]
PyBool(b)  == [py |-> "bool", v |-> IF b THEN "True" ELSE "False"]
PyNone     == [py |-> "NoneType", v |-> "None"]
PyList(xs) == [py |-> "list", items |-> xs]
PyDict(f)  == [py |-> "dict", members |-> f]

\* main.py mem_payload (its text, float, bool, int-or-None and list entries),
\* the q_response payload, and the proprioception payload of the sensor
\* sampler.  Floats are held in thousandths.
UserPayload(text, S, collapsed, collapsed_index, a) ==
    PyDict([k \in {"text", "entropy", "collapsed", "collapse_index", "activations"} |->
        CASE k = "text" -> PyStr(text)
          [] k = "entropy" -> PyFloat(ToString(S))
          [] k = "collapsed" -> PyBool(collapsed)
          [] k = "collapse_index" ->
                IF collapsed THEN PyInt(ToString(collapsed_index)) ELSE PyNone
          [] k = "activations" -> PyList([i \in 1..Len(a) |-> PyFloat(ToString(a[i]))])])

ResponsePayload(q_resp) == PyDict([k \in {"text"} |-> PyStr(q_resp)])

SensorPayload ==
    PyDict([k \in {"sense", "movement"} |->
        CASE k = "sense" -> PyStr("proprioception")
          [] k = "movement" ->
                PyDict([c \in {"dx", "dy"} |-> PyFloat(IF c = "dx" THEN "0.25" ELSE "-1.0")])])

EventKinds == { [type |-> "user_input",
                  payload |-> UserPayload("hello", 2429, TRUE, 0, <<500, 500>>)],
                [type |-> "sensor_reading", payload |-> SensorPayload] }

MemoryEvent(id, ts, kind) ==
    [id |-> id, timestamp |-> ts, type |-> kind.type, payload |-> kind.payload]

EventsOn(times) == { MemoryEvent(i, t, k) : i \in Ids, t \in times, k \in EventKinds }

(***************************************************************************)
(* datetime comparison                                                     *)
(***************************************************************************)
IsAware(t) == t.tz # "naive"

UtcOffset(tz) == IF tz = "+01:00" THEN 3600 ELSE 0

\* Seconds of the instant an aware datetime denotes; a naive one is compared
\* by its wall-clock fields.
Instant(t) == IF IsAware(t) THEN t.wall - UtcOffset(t.tz) ELSE t.wall

\* datetime.__lt__ raises TypeError between a naive and an aware value.
Comparable(a, b) == IsAware(a) = IsAware(b)

TsLess(a, b) ==
    \/ Instant(a) < Instant(b)
    \/ Instant(a) = Instant(b) /\ a.us < b.us

SameInstant(a, b) == Comparable(a, b) /\ ~TsLess(a, b) /\ ~TsLess(b, a)

(***************************************************************************)
(* MemoryGraph: nodes in insertion order, the event attribute of each      *)
(* node, and at most one edge per ordered pair with its relation label.    *)
(***************************************************************************)
NoEvents == [n \in {} |-> n]
NoEdges == [p \in {} |-> p]
EmptyGraph == [nodes |-> <<>>, event |-> NoEvents, edges |-> NoEdges]

NodeSet(G) == { G.nodes[i] : i \in 1..Len(G.nodes) }
Has(G, n) == n \in NodeSet(G)
EdgeSet(G) == { <<p[1], p[2], G.edges[p]>> : p \in DOMAIN G.edges }

add_node(G, ev) ==
    [ nodes |-> IF Has(G, ev.id) THEN G.nodes ELSE Append(G.nodes, ev.id),
      event |-> [n \in DOMAIN G.event \cup {ev.id} |->
                    IF n = ev.id THEN ev ELSE G.event[n]],
      edges |-> G.edges ]

add_edge(G, src, dst, relation) ==
    [ G EXCEPT !.edges = [p \in DOMAIN G.edges \cup {<<src, dst>>} |->
                            IF p = <<src, dst>> THEN relation ELSE G.edges[p]] ]

Returned(G) == [g |-> G, err |-> "none"]
Raised(G, e) == [g |-> G, err |-> e]

link_events_swapped(G, src_id, dst_id, relation) ==
    IF Has(G, src_id) /\ Has(G, dst_id)
    THEN Returned(add_edge(G, dst_id, src_id, relation))
    ELSE Raised(G, "KeyError")

link_events(G, src_id, dst_id, relation) ==
    IF Has(G, src_id) /\ Has(G, dst_id)
    THEN Returned(add_edge(G, src_id, dst_id, relation))
    ELSE Raised(G, "KeyError")

RECURSIVE InsertAsc(_, _, _)
InsertAsc(G, x, sorted) ==
    IF sorted = <<>> THEN <<x>>
    ELSE IF TsLess(G.event[x].timestamp, G.event[Head(sorted)].timestamp)
         THEN <<x>> \o sorted
         ELSE <<Head(sorted)>> \o InsertAsc(G, x, Tail(sorted))

RECURSIVE SortOldestFirst(_, _)
SortOldestFirst(G, ids) ==
    IF ids = <<>> THEN <<>>
    ELSE InsertAsc(G, ids[Len(ids)], SortOldestFirst(G, SubSeq(ids, 1, Len(ids) - 1)))

\* list.sort(key=timestamp, reverse=True): stable, so among equal keys the
\* original order is kept.  InsertDesc puts x behind every element whose key
\* is not smaller.
RECURSIVE InsertDesc(_, _, _)
InsertDesc(G, x, sorted) ==
    IF sorted = <<>> THEN <<x>>
    ELSE IF TsLess(G.event[Head(sorted)].timestamp, G.event[x].timestamp)
         THEN <<x>> \o sorted
         ELSE <<Head(sorted)>> \o InsertDesc(G, x, Tail(sorted))

RECURSIVE SortNewestFirst(_, _)
SortNewestFirst(G, ids) ==
    IF ids = <<>> THEN <<>>
    ELSE InsertDesc(G, ids[Len(ids)], SortNewestFirst(G, SubSeq(ids, 1, Len(ids) - 1)))

\* The ids of the prior list of add_event: every node but the new one.
Prior(G, id) == SelectSeq(G.nodes, LAMBDA n : n # id)

\* The sort compares timestamps of prior nodes; it raises as soon as a naive
\* and an aware one meet.
SortRaises(G, ids) ==
    \E i, j \in 1..Len(ids) :
        ~Comparable(G.event[ids[i]].timestamp, G.event[ids[j]].timestamp)

add_event(G, event) ==
    LET G1 == add_node(G, event)
        prior == Prior(G1, event.id)
    IN  IF Len(G1.nodes) > 1
        THEN IF SortRaises(G1, prior)
             THEN Raised(G1, "TypeError")
             ELSE link_events(G1, SortNewestFirst(G1, prior)[1], event.id, "next_in_time")
        ELSE Returned(G1)

(***************************************************************************)
(* JSON persistence of the graph: save_json / load_json                    *)
(***************************************************************************)
JsString(s) == [js |-> "string", v |-> s]
JsNumber(s, isInt) == [js |-> "number", v |-> s, int |-> isInt]
JsBool(b) == [js |-> IF b THEN "true" ELSE "false"]
JsNull == [js |-> "null"]
JsArray(xs) == [js |-> "array", items |-> xs]
JsObject(f) == [js |-> "object", members |-> f]

\* json.dump of a payload value
RECURSIVE json_dump(_)
json_dump(x) ==
    CASE x.py = "str" -> JsString(x.v)
      [] x.py = "float" -> JsNumber(x.v, FALSE)
      [] x.py = "int" -> JsNumber(x.v, TRUE)
      [] x.py = "bool" -> JsBool(x.v = "True")
      [] x.py = "NoneType" -> JsNull
      [] x.py = "list" -> JsArray([i \in 1..Len(x.items) |-> json_dump(x.items[i])])
      [] x.py = "dict" -> JsObject([k \in DOMAIN x.members |-> json_dump(x.members[k])])

\* json.load of a JSON value
RECURSIVE json_load(_)
json_load(j) ==
    CASE j.js = "string" -> PyStr(j.v)
      [] j.js = "number" -> IF j.int THEN PyInt(j.v) ELSE PyFloat(j.v)
      [] j.js = "true" -> PyBool(TRUE)
      [] j.js = "false" -> PyBool(FALSE)
      [] j.js = "null" -> PyNone
      [] j.js = "array" -> PyList([i \in 1..Len(j.items) |-> json_load(j.items[i])])
      [] j.js = "object" -> PyDict([k \in DOMAIN j.members |-> json_load(j.members[k])])

\* datetime.isoformat(): YYYY-MM-DDTHH:MM:SS, then .ffffff only when the
\* microseconds are not zero, then the UTC offset only when aware.
NoFraction == -1

isoformat_seconds(t) ==
    [ seconds |-> t.wall, fraction |-> NoFraction,
      offset |-> IF IsAware(t) THEN t.tz ELSE "" ]

isoformat(t) ==
    [ seconds |-> t.wall,
      fraction |-> IF t.us = 0 THEN NoFraction ELSE t.us,
      offset |-> IF IsAware(t) THEN t.tz ELSE "" ]

\* dateutil.parser.isoparse
isoparse(s) ==
    [ wall |-> s.seconds,
      us |-> IF s.fraction = NoFraction THEN 0 ELSE s.fraction,
      tz |-> IF s.offset = "" THEN "naive" ELSE s.offset ]

\* The file states of a JSON file of a user directory.
AbsentFile == [kind |-> "absent"]
EmptyFile == [kind |-> "empty"]
TornFile == [kind |-> "torn"]
JsonFile(doc) == [kind |-> "json", doc |-> doc]
EmptyObject == [top |-> "empty_object"]

\* json_graph.node_link_data(G): nodes in graph order with their attributes,
\* links with source, target and the edge attributes, under the key "links".
node_link_data(G) ==
    [ top |-> "node_link", directed |-> TRUE, multigraph |-> FALSE,
      nodes |-> [i \in 1..Len(G.nodes) |->
                    [id |-> G.nodes[i], event |-> G.event[G.nodes[i]]]],
      edgesKey |-> "links",
      edges |-> { [source |-> p[1], target |-> p[2], relation |-> G.edges[p]] :
                    p \in DOMAIN G.edges } ]

save_json(G) ==
    LET data == node_link_data(G)
    IN  JsonFile([data EXCEPT
            !.nodes = [i \in DOMAIN data.nodes |->
                [ id |-> data.nodes[i].id,
                  event |-> [ id |-> data.nodes[i].event.id,
                              timestamp |-> isoformat(data.nodes[i].event.timestamp),
                              type |-> data.nodes[i].event.type,
                              payload |-> json_dump(data.nodes[i].event.payload) ] ]]])

\* json_graph.node_link_graph(data, edges="links") followed by the
\* rehydration loop of load_json.
RECURSIVE AddLinks(_, _)
AddLinks(G, links) ==
    IF links = {} THEN G
    ELSE LET l == CHOOSE x \in links : TRUE
         IN  AddLinks(add_edge(G, l.source, l.target, l.relation), links \ {l})

RECURSIVE AddNodes(_, _)
AddNodes(G, nodeList) ==
    IF nodeList = <<>> THEN G
    ELSE LET d == Head(nodeList)
             ev == [ id |-> d.event.id,
                     timestamp |-> isoparse(d.event.timestamp),
                     type |-> d.event.type,
                     payload |-> json_load(d.event.payload) ]
             G1 == add_node(G, [ev EXCEPT !.id = d.id])
         IN  AddNodes([G1 EXCEPT !.event[d.id] = ev], Tail(nodeList))

\* load_json into store G: the new graph, or G kept when reading raises.
load_json(G, file) ==
    CASE file.kind = "absent" -> Raised(G, "FileNotFoundError")
      [] file.kind \in {"empty", "torn"} -> Raised(G, "JSONDecodeError")
      [] file.kind = "json" ->
            IF file.doc.top # "node_link" THEN Raised(G, "KeyError")
            ELSE IF file.doc.edgesKey # "links" THEN Raised(G, "KeyError")
            ELSE Returned(AddLinks(AddNodes(EmptyGraph, file.doc.nodes), file.doc.edges))

(***************************************************************************)
(* Spec: a MemoryGraph driven through its public operations                *)
(***************************************************************************)
NotLoaded == [state |-> "none"]
NoField == [w |-> <<>>]
NotWriting == [file |-> "none"]
NoThreads == <<>>
NoCache == <<>>
NoUsers == <<>>
NoAnswer == [op |-> "none"]

\* No retriever and no query is part of the specification.
NoSubscribers == <<>>
BusIdle == subscribers = NoSubscribers /\ stop_event = FALSE

\* No QPFAssistant tuning and no SelfModel is part of the specification.
NoSession == [N |-> 0]
NoSelfModel == [memories |-> <<>>]
SelfIdle == session = NoSession /\ self_model = NoSelfModel /\ contextFile = AbsentFile
QueryIdle == cache = NoCache /\ users = NoUsers /\ answer = NoAnswer /\ BusIdle /\ SelfIdle

\* No server process is part of this specification.
ServerIdle ==
    /\ weightsFile = AbsentFile
    /\ pc = <<>>
    /\ clock = 0
    /\ nextUuid = 0
    /\ restarts = 0
    /\ turns = <<>>
    /\ field = NoField
    /\ writing = NotWriting
    /\ threads = NoThreads
    /\ QueryIdle

Init ==
    /\ graph = EmptyGraph
    /\ err = "none"
    /\ memoryFile = AbsentFile
    /\ savedGraph = EmptyGraph
    /\ loaded = NotLoaded
    /\ calls = 0
    /\ ServerIdle

\* The clock of one deployment stamps every event the same way: all naive
\* (datetime.utcnow) or all aware.
SameClock(G, ev) ==
    \A n \in NodeSet(G) : Comparable(G.event[n].timestamp, ev.timestamp)

AddEvent(ev) ==
    /\ calls < MaxCalls
    /\ SameClock(graph, ev)
    /\ LET r == add_event(graph, ev)
       IN  graph' = r.g /\ err' = r.err
    /\ calls' = calls + 1
    /\ UNCHANGED <<memoryFile, savedGraph, loaded, serverVars>>

LinkEvents(src, dst, relation) ==
    /\ calls < MaxCalls
    /\ LET r == link_events(graph, src, dst, relation)
       IN  graph' = r.g /\ err' = r.err
    /\ calls' = calls + 1
    /\ UNCHANGED <<memoryFile, savedGraph, loaded, serverVars>>

SaveJson ==
    /\ calls < MaxCalls
    /\ memoryFile' = save_json(graph)
    /\ savedGraph' = graph
    /\ err' = "none"
    /\ calls' = calls + 1
    /\ UNCHANGED <<graph, loaded, serverVars>>

\* load_json on a freshly constructed MemoryGraph
LoadJson ==
    /\ calls < MaxCalls
    /\ LET r == load_json(EmptyGraph, memoryFile)
       IN  loaded' = [ state |-> "loaded", g |-> r.g, err |-> r.err,
                       file |-> memoryFile.kind, of |-> savedGraph ]
    /\ calls' = calls + 1
    /\ UNCHANGED <<graph, err, memoryFile, savedGraph, serverVars>>

Next ==
    \/ \E ev \in EventsOn(NaiveTimes) \cup EventsOn(AwareTimes) : AddEvent(ev)
    \/ \E src, dst \in Ids \cup {AbsentId}, r \in Relations : LinkEvents(src, dst, r)
    \/ SaveJson
    \/ LoadJson

Spec == Init /\ [][Next]_vars

Timestamp(G, n) == G.event[n].timestamp

C2_AppendOnly ==
    [][ /\ \A n \in NodeSet(graph) : n \in NodeSet(graph')
        /\ \A p \in DOMAIN graph.edges :
              p \in DOMAIN graph'.edges /\ graph'.edges[p] = graph.edges[p]
      ]_vars

\* C3: the event record stored under an id never changes once inserted.
C3_EventImmutable ==
    [][ \A n \in NodeSet(graph) : graph'.event[n] = graph.event[n] ]_vars

\* C4: link_events raises the missing-node error and leaves nodes and edges
\* unchanged when an endpoint is absent; otherwise it adds (or sets) the edge
\* src->dst with the given relation and changes no other node or edge.
C4_LinkEvents ==
    [][ \A src, dst \in Ids \cup {AbsentId}, r \in Relations :
          LinkEvents(src, dst, r) =>
            IF src \notin NodeSet(graph) \/ dst \notin NodeSet(graph)
            THEN err' = "KeyError" /\ graph' = graph
            ELSE /\ err' = "none"
                 /\ graph'.nodes = graph.nodes
                 /\ graph'.event = graph.event
                 /\ DOMAIN graph'.edges = DOMAIN graph.edges \cup {<<src, dst>>}
                 /\ graph'.edges[<<src, dst>>] = r
                 /\ \A p \in DOMAIN graph.edges \ {<<src, dst>>} :
                        graph'.edges[p] = graph.edges[p]
      ]_vars

\* A link between two different present nodes succeeded and a later link to
\* an absent node raised.
C4_Witness ==
    /\ err = "KeyError"
    /\ \E p \in DOMAIN graph.edges : graph.edges[p] = "causal" /\ p[1] # p[2]

SameGraph(A, B) ==
    /\ NodeSet(A) = NodeSet(B)
    /\ \A n \in NodeSet(A) :
          /\ A.event[n].id = B.event[n].id
          /\ A.event[n].type = B.event[n].type
          /\ A.event[n].payload = B.event[n].payload
          /\ SameInstant(A.event[n].timestamp, B.event[n].timestamp)
    /\ EdgeSet(A) = EdgeSet(B)

\* C5: loading a file written by save_json into a fresh store succeeds and
\* gives the node ids, the id, type and payload of every event, the
\* (source, destination, relation) edges and the timestamp instants of the
\* graph that was saved.
C5_RoundTrip ==
    (loaded.state = "loaded" /\ loaded.file = "json") =>
        loaded.err = "none" /\ SameGraph(loaded.g, loaded.of)

\* A graph of two linked events, with a timestamp with microseconds and a
\* non-zero UTC offset and a sensor payload, was saved and loaded.
C5_Witness ==
    /\ loaded.state = "loaded" /\ loaded.err = "none"
    /\ Len(loaded.g.nodes) = 2
    /\ DOMAIN loaded.g.edges # {}
    /\ \E n \in NodeSet(loaded.g) : loaded.g.event[n].timestamp.us # 0
    /\ \E n \in NodeSet(loaded.g) : loaded.g.event[n].timestamp.tz = "+01:00"
    /\ \E n \in NodeSet(loaded.g) : loaded.g.event[n].type = "sensor_reading"

(***************************************************************************)
(* Field dynamics (math_core) in fixed point: weights, activations and     *)
(* entropy are held in thousandths.                                        *)
(***************************************************************************)
Scale == 1000
N == 7
D == 3
Alpha == 73
SCrit == 1790

\* Linear interpolation in a table of values at x0, x0 + step, ...; the
\* first and last entries extend to the left and right.
Interpolate(x, x0, step, table) ==
    IF x <= x0 THEN table[1]
    ELSE IF x >= x0 + step * (Len(table) - 1) THEN table[Len(table)]
    ELSE LET i == (x - x0) \div step
             xa == x0 + i * step
         IN  table[i + 1] + ((table[i + 2] - table[i + 1]) * (x - xa)) \div step

\* 1 / (1 + exp(-w)) at w = -8, -7, ..., 8
SigmoidTable ==
    <<0, 1, 2, 7, 18, 47, 119, 269, 500, 731, 881, 953, 982, 993, 998, 999, 1000>>

\* -a^2 * log(a^2 + EPS) at a = 0, 0.05, ..., 2; the term depends on a^2
\* only, so the table is read at |a|.
EntropyTermTable ==
    <<0, 15, 46, 85, 129, 173, 217, 257, 293, 323, 347, 362, 368, 364, 350, 324,
      286, 235, 171, 93, 0,
      -108, -231, -370, -525, -697, -887, -1094, -1319, -1562, -1825,
      -2106, -2406, -2727, -3067, -3428, -3809, -4211, -4634, -5079, -5545>>

Abs(x) == IF x < 0 THEN -x ELSE x

activation(w) == [i \in 1..Len(w) |-> Interpolate(w[i], -8 * Scale, Scale, SigmoidTable)]

RECURSIVE SumSeq(_)
SumSeq(xs) == IF xs = <<>> THEN 0 ELSE Head(xs) + SumSeq(Tail(xs))

entropy(a) == SumSeq([i \in 1..Len(a) |-> Interpolate(Abs(a[i]), 0, 50, EntropyTermTable)])

\* The sign of the term -p2 * log(p2 + EPS) for a component x / Scale: with
\* EPS = 1e-12, p2 + EPS is below 1 exactly when |x| < Scale, and the term
\* is 0 at x = 0.  At x = Scale the term is -log(1 + 1e-12), about -1e-12.
TermSign(x) == IF x = 0 THEN 0 ELSE IF x * x < Scale * Scale THEN 1 ELSE -1

check_collapse_geq(S, S_crit) == S >= S_crit

check_collapse(S, S_crit) == S > S_crit

argmax_last(a) ==
    CHOOSE i \in 1..Len(a) :
        /\ \A j \in 1..Len(a) : a[j] <= a[i]
        /\ \A j \in (i + 1)..Len(a) : a[j] < a[i]

\* np.argmax: the first index of the maximum (counted from 1 here)
argmax(a) ==
    CHOOSE i \in 1..Len(a) :
        /\ \A j \in 1..Len(a) : a[j] <= a[i]
        /\ \A j \in 1..(i - 1) : a[j] < a[i]

collapse_weights_all(w, collapsed_index, alpha) ==
    [i \in 1..Len(w) |-> ((Scale - alpha) * w[i]) \div Scale + alpha]

\* w_new = (1.0 - alpha) * w is a new array; alpha is added to one entry of it.
collapse_weights(w, collapsed_index, alpha) ==
    [i \in 1..Len(w) |->
        ((Scale - alpha) * w[i]) \div Scale + (IF i = collapsed_index THEN alpha ELSE 0)]

(***************************************************************************)
(* Field State persistence: load_qpf_math_state / save_qpf_math_state      *)
(***************************************************************************)
\* np.dot(lambda_vec, F)
feedback_modulation(lambda_vec, F) ==
    SumSeq([i \in 1..Len(lambda_vec) |-> lambda_vec[i] * F[i]]) \div Scale

\* QPFAssistant.__init__ lines 171-177: N, D and the W-4 tuning; lambda_vec
\* is np.ones(N) * 0.12 and F is np.ones(N) * 0.17.
NewSession(n, d) ==
    [ N |-> n, D |-> d, alpha |-> Alpha, S_crit |-> SCrit,
      lambda_vec |-> [i \in 1..n |-> 120], F |-> [i \in 1..n |-> 170] ]

\* A numpy array: its shape, and its data (w) or the draw that produced it
\* (psi and W are never modified, only carried from load to save).
Vector(data) == [shape |-> <<Len(data)>>, data |-> data]
Matrix(rows, cols, draw) == [shape |-> <<rows, cols>>, draw |-> draw]

FieldState(w, psi, W) == [w |-> w, psi |-> psi, W |-> W]

\* Draws of np.random.randn: a diffuse and a saturated weight vector.
RandomWeights ==
    { <<500, 200, -100, 900, 0, 300, -400>>,
      <<3000, -3000, 4000, -4000, 3500, -3500, 5000>> }

RandomStates(n, d) ==
    { FieldState(Vector(w), Matrix(n, d, k), Matrix(n, n, k)) :
        w \in { x \in RandomWeights : Len(x) = n }, k \in {1, 2} }

\* ndarray.tolist() and np.array(list): nested lists of numbers
tolist(arr) ==
    IF Len(arr.shape) = 1
    THEN [list |-> "numbers", items |-> arr.data]
    ELSE [list |-> "rows", rows |-> arr.shape[1], cols |-> arr.shape[2], draw |-> arr.draw]

np_array(l) ==
    IF l.list = "numbers" THEN Vector(l.items) ELSE Matrix(l.rows, l.cols, l.draw)

save_qpf_math_state(w, psi, W) ==
    JsonFile([top |-> "weights", w |-> tolist(w), psi |-> tolist(psi), W |-> tolist(W)])

load_qpf_math_state_fresh(file, n, d) == RandomStates(n, d)

\* The states load_qpf_math_state can return: the stored arrays, or a fresh
\* random state when the file is missing, empty or cannot be read.
load_qpf_math_state(file, n, d) ==
    IF file.kind = "json" /\ file.doc.top = "weights"
    THEN { FieldState(np_array(file.doc.w), np_array(file.doc.psi), np_array(file.doc.W)) }
    ELSE RandomStates(n, d)

\* ensure_user_files: a missing .json file is created holding {}.
ensure_user_files(file) == IF file.kind = "absent" THEN JsonFile(EmptyObject) ELSE file

(***************************************************************************)
(* SpecServer: /chat requests of one user served by one event loop         *)
(***************************************************************************)
Requests == 1..MaxRequests
Texts == {"hi"}

\* MemoryGraph() and the guarded load_json of QPFAssistant.__init__
InitialGraph_fresh(file) == EmptyGraph

InitialGraph(file) ==
    IF file.kind \in {"absent", "empty"} THEN EmptyGraph
    ELSE load_json(EmptyGraph, file).g

UtcNow(t) == [wall |-> t, us |-> 0, tz |-> "naive"]

FieldStep_drift(st, alpha, S_crit) ==
    LET a == activation(st.w.data)
        S == entropy(a)
        collapsed_index == argmax(a)
        collapsed == check_collapse(S, S_crit)
    IN  [ a |-> a, S |-> S, collapsed |-> collapsed, collapsed_index |-> collapsed_index - 1,
          state |-> [st EXCEPT !.w = Vector(collapse_weights(st.w.data, collapsed_index, alpha))] ]

\* Lines 285-314 of chat: the Field State after the turn and what the turn
\* reports about it.
FieldStep(st, alpha, S_crit) ==
    LET a == activation(st.w.data)
        S == entropy(a)
        collapsed_index == argmax(a)
        collapsed == check_collapse(S, S_crit)
    IN  [ a |-> a, S |-> S, collapsed |-> collapsed, collapsed_index |-> collapsed_index - 1,
          state |-> IF collapsed
                    THEN [st EXCEPT !.w = Vector(collapse_weights(st.w.data, collapsed_index, alpha))]
                    ELSE st ]

\* One reading of sample_sensors: a MemoryEvent with the default timestamp.
SensorEvent(id, t) ==
    [id |-> id, timestamp |-> UtcNow(t), type |-> "sensor_reading", payload |-> SensorPayload]

RECURSIVE AddEvents(_, _)
AddEvents(G, events) ==
    IF events = <<>> THEN G
    ELSE AddEvents(add_event(G, Head(events)).g, Tail(events))

\* A memory file left by an earlier session: one turn's two events.
EarlierGraph ==
    AddEvents(EmptyGraph,
        << [ id |-> -1, timestamp |-> UtcNow(0), type |-> "user_input",
             payload |-> UserPayload("hi", 2429, TRUE, 0, <<500>>) ],
           [ id |-> -2, timestamp |-> UtcNow(0), type |-> "q_response",
             payload |-> ResponsePayload("reply") ] >>)

InitServer ==
    /\ weightsFile \in
          {AbsentFile, EmptyFile} \cup
          { save_qpf_math_state(st.w, st.psi, st.W) :
              st \in { x \in RandomStates(N, D) : x.psi.draw = 1 } }
    /\ memoryFile \in {AbsentFile, save_json(EarlierGraph)}
    /\ pc = [r \in Requests |-> "new"]
    /\ clock = 1
    /\ nextUuid = 1
    /\ restarts = 0
    /\ turns = <<>>
    /\ field = NoField /\ writing = NotWriting /\ threads = NoThreads
    /\ graph = EmptyGraph /\ err = "none" /\ savedGraph = EmptyGraph
    /\ loaded = NotLoaded /\ calls = 0
    /\ QueryIdle

\* chat_endpoint up to `await request.json()`: get_user_dir has ensured the
\* user's files.  Requests are numbered in the order of their arrival.
Receive(r) ==
    /\ pc[r] = "new"
    /\ \A q \in 1..(r - 1) : pc[q] # "new"
    /\ pc' = [pc EXCEPT ![r] = "reading"]
    /\ weightsFile' = ensure_user_files(weightsFile)
    /\ memoryFile' = ensure_user_files(memoryFile)
    /\ UNCHANGED <<clock, nextUuid, restarts, turns, field, writing, threads, storeVars, queryVars>>

\* The request carries no text: chat_endpoint returns before it builds a
\* QPFAssistant.
NoInput(r) ==
    /\ pc[r] = "reading"
    /\ pc' = [pc EXCEPT ![r] = "done"]
    /\ UNCHANGED <<weightsFile, memoryFile, clock, nextUuid, restarts, turns,
                   field, writing, threads, storeVars, queryVars>>

\* The first QPFAssistant of a process starts the sensor thread on its own
\* MemoryGraph (_bg_started).
FirstAssistant == \A i \in DOMAIN turns : turns[i].restarts # restarts

\* How many of the three readings of the first sample are in the graph before
\* the turn's first add_event, and how many more before its second; the rest
\* arrive after the turn has saved.  Interleavings inside add_event are the
\* subject of SpecSensor.
SensorPlans == {<<0, 0>>, <<2, 1>>}

\* The ids of the three readings of one sample (vision, audio,
\* proprioception), appended by the sensor thread to the graph it was given.
Sampled(uuid) == { uuid + i : i \in 1..3 }

Ticked(t, d) == IF t + d <= MaxClock THEN t + d ELSE t

\* What QPFAssistant(user_dir).chat(text) does from a weights file and a memory
\* file: the assistant it constructs, the events it adds and the files it
\* leaves.
ChatTurn(wFile, mFile, st, text, plan, d) ==
    LET mg0 == InitialGraph(ensure_user_files(mFile))
        f == FieldStep(st, Alpha, SCrit)
        t1 == clock
        t2 == Ticked(t1, d)
        before == [i \in 1..plan[1] |-> SensorEvent(nextUuid + 1 + i, clock)]
        between == [i \in 1..plan[2] |-> SensorEvent(nextUuid + 1 + plan[1] + i, t1)]
        e1 == [ id |-> nextUuid, timestamp |-> UtcNow(t1), type |-> "user_input",
                payload |-> UserPayload(text, f.S, f.collapsed, f.collapsed_index, f.a) ]
        e2 == [ id |-> nextUuid + 1, timestamp |-> UtcNow(t2), type |-> "q_response",
                payload |-> ResponsePayload("reply") ]
        mg2 == AddEvents(mg0, before \o <<e1>> \o between \o <<e2>>)
    IN  [ start |-> [field |-> st, graph |-> mg0],
          step |-> f,
          added |-> {e1, e2},
          end |-> [field |-> f.state, graph |-> mg2],
          weights |-> save_qpf_math_state(f.state.w, f.state.psi, f.state.W),
          memory |-> save_json(mg2),
          now |-> t2 ]

Overlapping(r) == { q \in Requests \ {r} : pc[q] \in {"reading", "sleeping"} }

\* chat_endpoint from the resumption after `await request.json()` to
\* `await asyncio.sleep(delay)`: QPFAssistant(user_dir) and Q.chat(text) run on
\* the event loop without awaiting, so no other request runs in between.
Turn(r) ==
    /\ pc[r] = "reading"
    /\ Len(turns) < MaxTurns
    /\ \E text \in Texts, d \in {0, 1},
          plan \in (IF FirstAssistant THEN SensorPlans ELSE {<<0, 0>>}),
          st \in load_qpf_math_state(ensure_user_files(weightsFile), N, D) :
        LET t == ChatTurn(weightsFile, memoryFile, st, text, plan, d)
        IN  /\ weightsFile' = t.weights
            /\ memoryFile' = t.memory
            /\ clock' = t.now
            /\ nextUuid' = nextUuid + 5
            /\ turns' = Append(turns,
                  [ request |-> r, completed |-> TRUE,
                    start |-> t.start, end |-> t.end,
                    collapsed |-> t.step.collapsed, added |-> t.added,
                    sensed |-> IF FirstAssistant THEN Sampled(nextUuid + 1) ELSE {},
                    overlapping |-> Overlapping(r), restarts |-> restarts ])
    /\ pc' = [pc EXCEPT ![r] = "sleeping"]
    /\ UNCHANGED <<restarts, field, writing, threads, storeVars, queryVars>>

\* The process is killed while chat waits for generate_q_response: the Field
\* State has been saved (line 314), no event has been added (line 409).  The
\* other requests in flight are dropped with it.
KilledTurn(r) ==
    /\ pc[r] = "reading"
    /\ Len(turns) < MaxTurns
    /\ Len(turns) < MaxTurns
    /\ restarts < MaxRestarts
    /\ \E text \in Texts,
          st \in load_qpf_math_state(ensure_user_files(weightsFile), N, D) :
        LET t == ChatTurn(weightsFile, memoryFile, st, text, <<0, 0>>, 0)
        IN  /\ weightsFile' = t.weights
            /\ turns' = Append(turns,
                  [ request |-> r, completed |-> FALSE,
                    start |-> t.start, end |-> [field |-> t.end.field, graph |-> t.start.graph],
                    collapsed |-> t.step.collapsed, added |-> {}, sensed |-> {},
                    overlapping |-> Overlapping(r), restarts |-> restarts ])
    /\ restarts' = restarts + 1
    /\ pc' = [q \in Requests |->
                IF q = r \/ pc[q] \in {"reading", "sleeping"} THEN "dropped" ELSE pc[q]]
    /\ UNCHANGED <<memoryFile, clock, nextUuid, field, writing, threads, storeVars, queryVars>>

\* asyncio.sleep is over and the response is returned.
Respond(r) ==
    /\ pc[r] = "sleeping"
    /\ pc' = [pc EXCEPT ![r] = "done"]
    /\ UNCHANGED <<weightsFile, memoryFile, clock, nextUuid, restarts, turns,
                   field, writing, threads, storeVars, queryVars>>

\* The server process is stopped between turns and started again: requests
\* in flight are dropped, nothing of a QPFAssistant survives, the files stay.
Restart ==
    /\ restarts < MaxRestarts
    /\ restarts' = restarts + 1
    /\ pc' = [r \in Requests |-> IF pc[r] \in {"reading", "sleeping"} THEN "dropped" ELSE pc[r]]
    /\ UNCHANGED <<weightsFile, memoryFile, clock, nextUuid, turns,
                   field, writing, threads, storeVars, queryVars>>

\* The client of a dropped request submits it again to the new process.
Retry(r) ==
    /\ pc[r] = "dropped"
    /\ pc' = [pc EXCEPT ![r] = "new"]
    /\ UNCHANGED <<weightsFile, memoryFile, clock, nextUuid, restarts, turns,
                   field, writing, threads, storeVars, queryVars>>

NextServer ==
    \/ \E r \in Requests : Receive(r)
    \/ \E r \in Requests : Retry(r)
    \/ \E r \in Requests : NoInput(r)
    \/ \E r \in Requests : Turn(r)
    \/ \E r \in Requests : KilledTurn(r)
    \/ \E r \in Requests : Respond(r)
    \/ Restart

SpecServer == InitServer /\ [][NextServer]_vars

(***************************************************************************)
(* SpecSensor: the sensor sampler thread and the chat turn of the first    *)
(* QPFAssistant of a process, both inside add_event on the same graph      *)
(***************************************************************************)
ThreadNames == {"chat", "sensor"}

\* The add_event calls a thread makes: chat lines 409-410, sample_sensors.
Program(t) ==
    IF t = "chat" THEN <<"user_input", "q_response">>
    ELSE <<"sensor_reading", "sensor_reading", "sensor_reading">>

Outside(done) == [pc |-> "outside", done |-> done]

InitSensor ==
    /\ \E file \in {AbsentFile, save_json(EarlierGraph)} : graph = InitialGraph(file)
    /\ threads = [t \in ThreadNames |-> Outside(0)]
    /\ clock = 1
    /\ nextUuid = 1
    /\ err = "none"
    /\ memoryFile = AbsentFile /\ savedGraph = EmptyGraph /\ loaded = NotLoaded /\ calls = 0
    /\ weightsFile = AbsentFile /\ pc = <<>> /\ restarts = 0 /\ turns = <<>>
    /\ field = NoField /\ writing = NotWriting
    /\ QueryIdle

SensorFrame == <<memoryFile, savedGraph, loaded, calls, weightsFile, pc, restarts, turns,
                 field, writing, queryVars>>

\* MemoryEvent(type=..., payload=...) is built and add_event is called.
Call(t) ==
    /\ threads[t].pc = "outside"
    /\ threads[t].done < Len(Program(t))
    /\ \E d \in {0, 1} :
        LET now == Ticked(clock, d)
            kind == Program(t)[threads[t].done + 1]
            event == [ id |-> nextUuid, timestamp |-> UtcNow(now), type |-> kind,
                       payload |-> CASE kind = "sensor_reading" -> SensorPayload
                                     [] kind = "user_input" ->
                                            UserPayload("hi", 2429, TRUE, 0, <<500, 500>>)
                                     [] OTHER -> ResponsePayload("reply") ]
        IN  /\ clock' = now
            /\ threads' = [threads EXCEPT ![t] =
                  [pc |-> "called", done |-> threads[t].done, event |-> event]]
    /\ nextUuid' = nextUuid + 1
    /\ UNCHANGED <<graph, err, SensorFrame>>

\* add_event line 33: self.graph.add_node(event.id, event=event)
AddNode(t) ==
    /\ threads[t].pc = "called"
    /\ graph' = add_node(graph, threads[t].event)
    /\ threads' = [threads EXCEPT ![t].pc = "added"]
    /\ UNCHANGED <<err, clock, nextUuid, SensorFrame>>

\* add_event line 36-38: the graph has more than one node and the list
\* comprehension starts to iterate over self.graph.nodes.
BeginScan(t) ==
    /\ threads[t].pc = "added"
    /\ IF Len(graph.nodes) > 1
       THEN threads' = [threads EXCEPT ![t] =
                [ pc |-> "scanning", done |-> threads[t].done, event |-> threads[t].event,
                  seen |-> graph.nodes ]]
       ELSE threads' = [threads EXCEPT ![t] = Outside(threads[t].done + 1)]
    /\ UNCHANGED <<graph, err, clock, nextUuid, SensorFrame>>

\* An exception leaves add_event: sample_sensors is abandoned (_run_loop
\* catches it and sleeps), chat propagates it and the turn is over.
Abandoned(t) == Outside(Len(Program(t)))

\* add_event lines 37-42: the iteration ends.  A node added meanwhile makes
\* the dict iterator raise RuntimeError; otherwise prior is sorted and its
\* first element is the predecessor.
EndScan(t) ==
    /\ threads[t].pc = "scanning"
    /\ IF graph.nodes # threads[t].seen
       THEN /\ threads' = [threads EXCEPT ![t] = Abandoned(t)]
            /\ err' = "RuntimeError"
       ELSE /\ threads' = [threads EXCEPT ![t] =
                [ pc |-> "linking", done |-> threads[t].done, event |-> threads[t].event,
                  last_id |-> SortNewestFirst(graph, Prior(graph, threads[t].event.id))[1] ]]
            /\ err' = err
    /\ UNCHANGED <<graph, clock, nextUuid, SensorFrame>>

\* add_event line 43: self.link_events(last_id, event.id, "next_in_time")
Link(t) ==
    /\ threads[t].pc = "linking"
    /\ graph' = link_events(graph, threads[t].last_id, threads[t].event.id, "next_in_time").g
    /\ threads' = [threads EXCEPT ![t] = Outside(threads[t].done + 1)]
    /\ UNCHANGED <<err, clock, nextUuid, SensorFrame>>

NextSensor ==
    \E t \in ThreadNames :
        \/ Call(t)
        \/ AddNode(t)
        \/ BeginScan(t)
        \/ EndScan(t)
        \/ Link(t)

SpecSensor == InitSensor /\ [][NextSensor]_vars

Position(G, n) == CHOOSE i \in DOMAIN G.nodes : G.nodes[i] = n

IncomingNext(G, n) ==
    { p \in DOMAIN G.edges : p[2] = n /\ G.edges[p] = "next_in_time" }

\* C8: whenever no thread is inside add_event, every event but the first
\* inserted has exactly one incoming next_in_time edge, and that edge comes
\* from an event inserted before it (so the next_in_time edges form no cycle).
C8_StructurePreserved ==
    (\A t \in DOMAIN threads : threads[t].pc = "outside") =>
        \A i \in 2..Len(graph.nodes) :
            LET n == graph.nodes[i]
            IN  /\ Cardinality(IncomingNext(graph, n)) = 1
                /\ \A p \in IncomingNext(graph, n) : Position(graph, p[1]) < i

(***************************************************************************)
(* SpecCrash: one chat turn at a time, its two file saves taken step by    *)
(* step, and a process that can die at any moment                          *)
(***************************************************************************)
Pending(file, old, new) == [file |-> file, stage |-> "pending", old |-> old, new |-> new]

InitCrash ==
    /\ weightsFile \in { save_qpf_math_state(st.w, st.psi, st.W) : st \in RandomStates(N, D) }
    /\ memoryFile \in {JsonFile(EmptyObject), save_json(EarlierGraph)}
    /\ pc = "idle"
    /\ graph = EmptyGraph
    /\ field = NoField
    /\ writing = NotWriting
    /\ clock = 1
    /\ nextUuid = 1
    /\ restarts = 0
    /\ calls = 0
    /\ err = "none" /\ savedGraph = EmptyGraph /\ loaded = NotLoaded
    /\ turns = <<>> /\ threads = NoThreads
    /\ QueryIdle

CrashFrame == <<err, savedGraph, loaded, turns, threads, queryVars>>

\* QPFAssistant(user_dir) and chat up to line 313: the files are loaded and the
\* Field State is advanced; save_qpf_math_state is about to be called.
StartTurn ==
    /\ pc = "idle"
    /\ calls < MaxTurns
    /\ calls' = calls + 1
    /\ \E st \in load_qpf_math_state(ensure_user_files(weightsFile), N, D) :
        LET after == FieldStep(st, Alpha, SCrit).state
        IN  /\ field' = after
            /\ writing' = Pending("weights", ensure_user_files(weightsFile),
                                  save_qpf_math_state(after.w, after.psi, after.W))
    /\ weightsFile' = ensure_user_files(weightsFile)
    /\ memoryFile' = ensure_user_files(memoryFile)
    /\ graph' = InitialGraph(ensure_user_files(memoryFile))
    /\ pc' = "saving"
    /\ UNCHANGED <<clock, nextUuid, restarts, CrashFrame>>

\* open(path, "w"): the file is truncated (main.py line 149, memory_graph.py
\* line 106).
OpenForWriting ==
    /\ pc = "saving" /\ writing.stage = "pending"
    /\ writing' = [writing EXCEPT !.stage = "opened"]
    /\ IF writing.file = "weights"
       THEN weightsFile' = EmptyFile /\ memoryFile' = memoryFile
       ELSE memoryFile' = EmptyFile /\ weightsFile' = weightsFile
    /\ UNCHANGED <<graph, field, pc, clock, nextUuid, restarts, calls, CrashFrame>>

\* json.dump has filled the write buffer and a first part of the text reaches
\* the file.  Only the graph file grows past the buffer; the 77 numbers of
\* the weights file are written at close.
FlushPart ==
    /\ pc = "saving" /\ writing.stage = "opened" /\ writing.file = "memory"
    /\ writing' = [writing EXCEPT !.stage = "partial"]
    /\ memoryFile' = TornFile
    /\ UNCHANGED <<weightsFile, graph, field, pc, clock, nextUuid, restarts, calls, CrashFrame>>

\* The with block ends: the whole text is in the file.  After the weights
\* file chat goes on to generate the response, after the graph file the turn
\* is over.
CloseFile ==
    /\ pc = "saving" /\ writing.stage \in {"opened", "partial"}
    /\ writing' = NotWriting
    /\ IF writing.file = "weights"
       THEN /\ weightsFile' = writing.new /\ memoryFile' = memoryFile
            /\ pc' = "responding"
            /\ UNCHANGED <<graph, field>>
       ELSE /\ memoryFile' = writing.new /\ weightsFile' = weightsFile
            /\ pc' = "idle"
            /\ graph' = EmptyGraph /\ field' = NoField
    /\ UNCHANGED <<clock, nextUuid, restarts, calls, CrashFrame>>

\* chat lines 409-411: the two events are added and save_json is called.
AppendEvents ==
    /\ pc = "responding"
    /\ \E d \in {0, 1} :
        LET f == FieldStep(field, Alpha, SCrit)
            e1 == [ id |-> nextUuid, timestamp |-> UtcNow(clock), type |-> "user_input",
                    payload |-> UserPayload("hi", f.S, f.collapsed, f.collapsed_index, f.a) ]
            e2 == [ id |-> nextUuid + 1, timestamp |-> UtcNow(Ticked(clock, d)),
                    type |-> "q_response", payload |-> ResponsePayload("reply") ]
            mg == AddEvents(graph, <<e1, e2>>)
        IN  /\ graph' = mg
            /\ writing' = Pending("memory", memoryFile, save_json(mg))
            /\ clock' = Ticked(clock, d)
    /\ nextUuid' = nextUuid + 2
    /\ pc' = "saving"
    /\ UNCHANGED <<weightsFile, memoryFile, field, restarts, calls, CrashFrame>>

\* The process dies: power loss, kill -9, out of memory.  The files stay as
\* they are, everything in memory is gone.
Crash ==
    /\ pc \in {"saving", "responding"}
    /\ restarts < MaxRestarts
    /\ pc' = "down"
    /\ graph' = EmptyGraph /\ field' = NoField
    /\ UNCHANGED <<weightsFile, memoryFile, writing, clock, nextUuid, restarts, calls, CrashFrame>>

\* The process is started again.
Recover ==
    /\ pc = "down"
    /\ pc' = "idle"
    /\ restarts' = restarts + 1
    /\ writing' = NotWriting
    /\ UNCHANGED <<weightsFile, memoryFile, graph, field, clock, nextUuid, calls, CrashFrame>>

NextCrash ==
    \/ StartTurn
    \/ OpenForWriting
    \/ FlushPart
    \/ CloseFile
    \/ AppendEvents
    \/ Crash
    \/ Recover

SpecCrash == InitCrash /\ [][NextCrash]_vars

\* C9: while a save of qpf_weights.json or q_memory.json is under way
\* (the process can die in any of these states, and stays in them when it
\* has died), the file holds either the complete content it had before the
\* save or the complete content being saved.
C9_AtomicSaves ==
    /\ (writing.file = "weights" => weightsFile \in {writing.old, writing.new})
    /\ (writing.file = "memory" => memoryFile \in {writing.old, writing.new})

(***************************************************************************)
(* Claims about concurrent and consecutive chat turns                      *)
(***************************************************************************)
Persisted == load_json(EmptyGraph, memoryFile)

Occurrences(seq, x) == Cardinality({ i \in DOMAIN seq : seq[i] = x })

SameEvent(a, b) ==
    /\ a.id = b.id /\ a.type = b.type /\ a.payload = b.payload
    /\ SameInstant(a.timestamp, b.timestamp)

\* Two turns of one process whose requests were in flight at the same time
\* have both been answered.
ConcurrentTurnsDone ==
    /\ Len(turns) = 2
    /\ turns[1].completed /\ turns[2].completed
    /\ turns[1].restarts = turns[2].restarts
    /\ turns[1].request \in turns[2].overlapping
    /\ pc[turns[1].request] = "done" /\ pc[turns[2].request] = "done"

\* C6: q_memory.json loads, and every event appended by a completed chat
\* turn, concurrent with another turn or not, is in the loaded graph exactly
\* once and as it was appended: no turn's save loses, duplicates or
\* overwrites the events of another turn.
C6_BothTurnsPersisted ==
    LET file == Persisted
    IN  \A i \in DOMAIN turns : turns[i].completed =>
            /\ file.err = "none"
            /\ \A e \in turns[i].added :
                  /\ Occurrences(file.g.nodes, e.id) = 1
                  /\ SameEvent(file.g.event[e.id], e)

\* Two overlapping requests have been answered and the second turn started
\* from a graph that already held an earlier session's events.
C6_Witness ==
    /\ ConcurrentTurnsDone
    /\ Len(turns[1].start.graph.nodes) = 2
    /\ Len(Persisted.g.nodes) >= 6

RECURSIVE SerialRun(_, _)
SerialRun(st, n) ==
    IF n = 0 THEN st ELSE SerialRun(FieldStep(st, Alpha, SCrit).state, n - 1)

\* C7: after any number of chat turns, concurrent or not, qpf_weights.json
\* holds the Field State obtained by running the turns' weight updates one
\* after the other from the state the first turn loaded: no update is lost
\* and none is applied to a stale state.
C7_SerialWeights ==
    turns # <<>> =>
        LET s == SerialRun(turns[1].start.field, Len(turns))
        IN  weightsFile = save_qpf_math_state(s.w, s.psi, s.W)

\* Two overlapping requests have been answered and both turns collapsed the
\* weights.
C7_Witness ==
    /\ ConcurrentTurnsDone
    /\ turns[1].collapsed /\ turns[2].collapsed
    /\ turns[2].end.field.w # turns[1].end.field.w
    /\ turns[1].end.field.w # turns[1].start.field.w

PreviousCompleted(i) == { j \in 1..(i - 1) : turns[j].completed }

LastCompleted(i) ==
    CHOOSE j \in PreviousCompleted(i) : \A k \in PreviousCompleted(i) : k <= j

\* C10: every chat turn that follows a completed turn of the user starts with
\* the Field State and the Event Graph that the last completed turn before it
\* persisted, whether or not the process was restarted in between.
C10_StartsFromPersisted ==
    \A i \in DOMAIN turns : PreviousCompleted(i) # {} =>
        /\ turns[i].start.field = turns[LastCompleted(i)].end.field
        /\ SameGraph(turns[i].start.graph, turns[LastCompleted(i)].end.graph)

(***************************************************************************)
(* SpecFaults: one user's turns, one QPFAssistant per turn, over files     *)
(* that may be missing, empty or malformed and writes that may fail        *)
(***************************************************************************)
EmptyList == [list |-> "numbers", items |-> <<>>]

\* qpf_weights.json that parses and has the three keys, but whose arrays do
\* not fit together: {"w": [0.1, 0.2], "psi": [], "W": []}
MisshapenWeights ==
    JsonFile([top |-> "weights", w |-> tolist(Vector(<<100, 200>>)),
              psi |-> EmptyList, W |-> EmptyList])

\* qpf_weights.json holding a Field State whose arrays fit together but were
\* written for five concepts: w of length 5, psi 5 x D, W 5 x 5.
ResizedWeights ==
    save_qpf_math_state(Vector(<<500, 200, -100, 900, 0>>), Matrix(5, D, 1), Matrix(5, 5, 1))

\* resonance: a.T @ W @ a is defined only for a square W of the size of a.
resonance_raises(a, W) == W.shape # <<Len(a), Len(a)>>

\* project_state: a[:, None] * psi_vectors broadcasts (n, 1) against psi.
project_state_raises(a, psi) ==
    /\ Len(psi.shape) = 2
    /\ psi.shape[1] \notin {1, Len(a)}

\* chat lines 285-292: exception raised before the Field State is touched.
chat_raises(st) ==
    LET a == activation(st.w.data)
    IN  \/ resonance_raises(a, st.W)
        \/ project_state_raises(a, st.psi)
        \/ Len(a) = 0

InitFaults ==
    /\ weightsFile \in
          {AbsentFile, EmptyFile, TornFile, JsonFile(EmptyObject), MisshapenWeights,
           ResizedWeights} \cup
          { save_qpf_math_state(st.w, st.psi, st.W) :
              st \in { x \in RandomStates(N, D) : x.psi.draw = 1 } }
    /\ memoryFile \in
          { AbsentFile, EmptyFile, TornFile, JsonFile(EmptyObject), save_json(EarlierGraph) }
    /\ pc = "idle"
    /\ graph = EmptyGraph
    /\ field = NoField
    /\ loaded = NotLoaded
    /\ err = "none"
    /\ calls = 0
    /\ turns = <<>>
    /\ clock = 1 /\ nextUuid = 1
    /\ savedGraph = EmptyGraph /\ restarts = 0
    /\ writing = NotWriting /\ threads = NoThreads
    /\ QueryIdle

FaultsFrame == <<savedGraph, restarts, writing, threads, queryVars>>

\* get_user_dir and QPFAssistant.__init__ lines 153-177.  `loaded` keeps the
\* files as they were found and the state the assistant starts with.
Construct ==
    /\ pc = "idle"
    /\ calls < MaxTurns
    /\ calls' = calls + 1
    /\ weightsFile' = ensure_user_files(weightsFile)
    /\ memoryFile' = ensure_user_files(memoryFile)
    /\ graph' = InitialGraph(ensure_user_files(memoryFile))
    /\ field' \in load_qpf_math_state(ensure_user_files(weightsFile), N, D)
    /\ loaded' = [ state |-> "session", weights |-> weightsFile, memory |-> memoryFile,
                   field |-> field', graph |-> graph' ]
    /\ pc' = "constructed"
    /\ err' = "none"
    /\ UNCHANGED <<turns, clock, nextUuid, FaultsFrame>>

\* QPFAssistant.chat.  wfail: open/json.dump of save_qpf_math_state raises
\* OSError (line 314, not guarded); mfail: save_json raises (line 411, inside
\* try/except).
Chat(wfail, mfail) ==
    /\ pc = "constructed"
    /\ LET f == FieldStep(field, Alpha, SCrit)
           e1 == [ id |-> nextUuid, timestamp |-> UtcNow(clock), type |-> "user_input",
                   payload |-> UserPayload("hi", f.S, f.collapsed, f.collapsed_index, f.a) ]
           e2 == [ id |-> nextUuid + 1, timestamp |-> UtcNow(clock), type |-> "q_response",
                   payload |-> ResponsePayload("reply") ]
           mg == AddEvents(graph, <<e1, e2>>)
           entry(e) == [ wfail |-> wfail, mfail |-> mfail, err |-> e,
                         computed |-> f.state, added |-> {e1, e2} ]
       IN  IF chat_raises(field)
           THEN /\ pc' = "failed" /\ err' = "ValueError"
                /\ turns' = Append(turns, [ wfail |-> FALSE, mfail |-> FALSE, err |-> "ValueError",
                                            computed |-> field, added |-> {} ])
                /\ UNCHANGED <<field, graph, weightsFile, memoryFile>>
           ELSE IF wfail
           THEN /\ pc' = "failed" /\ err' = "OSError"
                /\ field' = f.state
                /\ turns' = Append(turns, entry("OSError"))
                /\ UNCHANGED <<graph, weightsFile, memoryFile>>
           ELSE /\ pc' = "returned" /\ err' = "none"
                /\ field' = f.state
                /\ weightsFile' = save_qpf_math_state(f.state.w, f.state.psi, f.state.W)
                /\ graph' = mg
                /\ memoryFile' = IF mfail THEN memoryFile ELSE save_json(mg)
                /\ turns' = Append(turns, entry("none"))
    /\ nextUuid' = nextUuid + 2
    /\ UNCHANGED <<loaded, calls, clock, FaultsFrame>>

\* chat_endpoint is left (response or HTTP 500); the assistant is garbage.
Leave ==
    /\ pc \in {"returned", "failed"}
    /\ pc' = "idle"
    /\ graph' = EmptyGraph
    /\ field' = NoField
    /\ clock' = Ticked(clock, 1)
    /\ UNCHANGED <<weightsFile, memoryFile, loaded, err, calls, turns, nextUuid, FaultsFrame>>

NextFaults ==
    \/ Construct
    \/ \E wfail, mfail \in BOOLEAN : Chat(wfail, mfail)
    \/ Leave

SpecFaults == InitFaults /\ [][NextFaults]_vars

WellFormedWeights(file) ==
    /\ file.kind = "json" /\ file.doc.top = "weights"
    /\ np_array(file.doc.w).shape = <<N>>
    /\ np_array(file.doc.psi).shape = <<N, D>>
    /\ np_array(file.doc.W).shape = <<N, N>>

WellFormedMemory(file) == file.kind = "json" /\ file.doc.top = "node_link"

\* C11: a session built over a missing, empty or malformed qpf_weights.json
\* starts from fresh w, psi, W of shapes N, N x D, N x N; one built over a
\* missing, empty or malformed q_memory.json starts from the empty graph; and
\* in both cases the turn does not raise (other than for a failed write).
C11_FreshStateOnBadFile ==
    loaded.state = "session" =>
        /\ ~WellFormedWeights(loaded.weights) =>
              /\ loaded.field \in RandomStates(N, D)
              /\ ~(pc = "failed" /\ err # "OSError")
        /\ ~WellFormedMemory(loaded.memory) =>
              /\ loaded.graph = EmptyGraph
              /\ ~(pc = "failed" /\ err # "OSError")

Last(seq) == seq[Len(seq)]

\* C12: a turn in which the write of qpf_weights.json or of q_memory.json
\* failed still returned, left the assistant's Field State as computed and
\* added its two events to the in-memory graph.
C12_TurnSurvivesWriteFailure ==
    (pc \in {"returned", "failed"} /\ turns # <<>> /\ (Last(turns).wfail \/ Last(turns).mfail)) =>
        /\ pc = "returned"
        /\ field = Last(turns).computed
        /\ \A e \in Last(turns).added : Has(graph, e.id) /\ graph.event[e.id] = e

(***************************************************************************)
(* ContextualRetriever.retrieve_semantic                                   *)
(***************************************************************************)
\* The embedder: a text -> vector function handed to the retriever.  An
\* empty text is embedded as the zero vector.
Embed(text) ==
    CASE text = "cat" -> <<1, 0>>
      [] text = "dog" -> <<0, 1>>
      [] text = "pet" -> <<1, 1>>
      [] text = "" -> <<0, 0>>
      [] OTHER -> <<-1, 0>>

\* Lines 52-55: the payload's 'text' if it is a str, else str(payload).
CandidateText(ev) ==
    IF "text" \in DOMAIN ev.payload.members /\ ev.payload.members["text"].py = "str"
    THEN ev.payload.members["text"].v
    ELSE "str(payload)"

Dot(u, v) == u[1] * v[1] + u[2] * v[2]

\* Line 62: dot / norms where norms != 0, else 0.  The similarity is kept as
\* the fraction sign(dot) * dot^2 / (|e|^2 * |q|^2), which orders as the cosine.
Similarity(ev, text) ==
    LET e == Embed(CandidateText(ev))
        q == Embed(text)
        d == Dot(e, q)
        n2 == Dot(e, e) * Dot(q, q)
    IN  IF n2 = 0 THEN [num |-> 0, den |-> 1]
        ELSE [num |-> IF d < 0 THEN -(d * d) ELSE d * d, den |-> n2]

SimLeq(x, y) == x.num * y.den <= y.num * x.den
SimEq(x, y) == x.num * y.den = y.num * x.den

IndexOrders(n) == { p \in [1..n -> 1..n] : \A i, j \in 1..n : p[i] = p[j] => i = j }

\* np.argsort(sims): the indices in ascending order of similarity; which of
\* two equal similarities comes first is not fixed by the default sort.
argsort(sims) ==
    { p \in IndexOrders(Len(sims)) :
        \A i \in 1..(Len(sims) - 1) : SimLeq(sims[p[i]], sims[p[i + 1]]) }

Reversed(seq) == [i \in 1..Len(seq) |-> seq[Len(seq) + 1 - i]]

\* seq[-k:] of Python for k >= 0: the last k elements, and all of them for
\* k = 0 because -0 is 0.
LastK(seq, k) ==
    IF k = 0 \/ k >= Len(seq) THEN seq ELSE SubSeq(seq, Len(seq) - k + 1, Len(seq))

\* The body of retrieve_semantic (lines 46-66) on graph G: the exception it
\* raises, or the lists it can return.
retrieve_semantic(G, text, k) ==
    IF G.nodes = <<>>
    THEN [err |-> "ValueError", results |-> {}]
    ELSE LET events == [i \in 1..Len(G.nodes) |-> G.event[G.nodes[i]]]
             sims == [i \in 1..Len(events) |-> Similarity(events[i], text)]
         IN  [ err |-> "none",
               results |-> { [i \in 1..Len(LastK(p, k)) |-> events[Reversed(LastK(p, k))[i]]] :
                               p \in argsort(sims) } ]

(***************************************************************************)
(* SpecRetriever: retrievers over one MemoryGraph that is being mutated    *)
(***************************************************************************)
Retrievers == {"r1", "r2"}
Queries == {"cat", "pet"}
CandidateTexts == {"cat", "dog", ""}

\* functools.lru_cache on the method: one cache for the class, keyed by
\* (self, text, k), most recently used first.
CacheIndex(key) == { i \in DOMAIN cache : cache[i].key = key }

Touch(i) == <<cache[i]>> \o SubSeq(cache, 1, i - 1) \o SubSeq(cache, i + 1, Len(cache))

Insert(key, value) ==
    LET grown == <<[key |-> key, value |-> value]>> \o cache
    IN  IF Len(grown) > maxsize THEN SubSeq(grown, 1, maxsize) ELSE grown

\* A graph file to load over the current graph.
StoredGraph ==
    AddEvents(EmptyGraph,
        << [ id |-> -1, timestamp |-> UtcNow(0), type |-> "q_response",
             payload |-> ResponsePayload("dog") ] >>)

InitRetriever ==
    /\ graph \in {EmptyGraph, StoredGraph}
    /\ cache = NoCache
    /\ answer = NoAnswer
    /\ turns = <<>>
    /\ calls = 0
    /\ nextUuid = 1
    /\ clock = 1
    /\ err = "none"
    /\ memoryFile = save_json(StoredGraph)
    /\ savedGraph = StoredGraph /\ loaded = NotLoaded
    /\ weightsFile = AbsentFile /\ pc = <<>> /\ restarts = 0
    /\ field = NoField /\ writing = NotWriting /\ threads = NoThreads
    /\ users = NoUsers
    /\ BusIdle /\ SelfIdle

RetrieverFrame == <<memoryFile, savedGraph, loaded, weightsFile, pc, restarts, clock,
                    field, writing, threads, users, busVars, selfVars>>

\* mg.add_event(MemoryEvent(type=..., payload={"text": text}))
Remember(text) ==
    /\ calls < MaxCalls
    /\ graph' = add_event(graph, [ id |-> nextUuid, timestamp |-> UtcNow(clock),
                                   type |-> "user_input",
                                   payload |-> ResponsePayload(text) ]).g
    /\ nextUuid' = nextUuid + 1
    /\ calls' = calls + 1
    /\ UNCHANGED <<cache, answer, turns, err, RetrieverFrame>>

\* mg.load_json(path): the graph is replaced by the stored one.
Reload ==
    /\ calls < MaxCalls
    /\ graph # StoredGraph
    /\ graph' = load_json(graph, memoryFile).g
    /\ calls' = calls + 1
    /\ UNCHANGED <<cache, answer, turns, err, nextUuid, RetrieverFrame>>

\* self.retrieve_semantic(text, k) through the lru_cache wrapper.  `turns`
\* logs the calls that returned.
RetrieveSemantic(self, text, k) ==
    /\ calls < MaxCalls
    /\ calls' = calls + 1
    /\ LET key == <<self, text, k>>
           computed == retrieve_semantic(graph, text, k)
           call == [op |-> "retrieve_semantic", self |-> self, text |-> text, k |-> k, on |-> graph]
       IN  IF CacheIndex(key) # {}
           THEN LET i == CHOOSE j \in CacheIndex(key) : TRUE
                IN  /\ answer' = call @@
                                 [hit |-> TRUE, err |-> "none", result |-> cache[i].value]
                    /\ cache' = Touch(i)
                    /\ turns' = Append(turns, call)
           ELSE IF computed.err # "none"
           THEN /\ answer' = call @@ [hit |-> FALSE, err |-> computed.err, result |-> <<>>]
                /\ UNCHANGED <<cache, turns>>
           ELSE \E result \in computed.results :
                    /\ answer' = call @@ [hit |-> FALSE, err |-> "none", result |-> result]
                    /\ cache' = Insert(key, result)
                    /\ turns' = Append(turns, call)
    /\ UNCHANGED <<graph, err, nextUuid, RetrieverFrame>>

NextRetriever ==
    \/ \E text \in CandidateTexts : Remember(text)
    \/ Reload
    \/ \E self \in Retrievers, text \in Queries, k \in 0..MaxK : RetrieveSemantic(self, text, k)

SpecRetriever == InitRetriever /\ [][NextRetriever]_vars

Answered == answer.op = "retrieve_semantic"

\* C13: what retrieve_semantic(text, k) returns is a result of the
\* computation on the graph as it is at the call, also when the graph was
\* mutated after an earlier call with the same arguments.
C13_NeverStale ==
    (Answered /\ answer.err = "none") =>
        answer.result \in retrieve_semantic(answer.on, answer.text, answer.k).results

Min(a, b) == IF a <= b THEN a ELSE b

\* C14: a retrieve_semantic(text, k) that is computed (not served from the
\* cache) does not raise, returns exactly min(k, number of events) events,
\* and returns them in non-increasing order of similarity to the query.
C14_TopK ==
    (Answered /\ ~answer.hit) =>
        /\ answer.err = "none"
        /\ Len(answer.result) = Min(answer.k, Len(answer.on.nodes))
        /\ \A i \in 1..(Len(answer.result) - 1) :
              SimLeq(Similarity(answer.result[i + 1], answer.text),
                     Similarity(answer.result[i], answer.text))

Front(seq) == SubSeq(seq, 1, Len(seq) - 1)

\* The (text, k) pairs of the n most recently used distinct pairs of
\* retriever self in a log of calls, restricted to those used on graph G.
RECURSIVE RecentPairs(_, _, _, _, _)
RecentPairs(log, self, n, G, seen) ==
    IF log = <<>> \/ Cardinality(seen) = n THEN { p \in seen : p[3] = G }
    ELSE LET e == Last(log)
         IN  RecentPairs(Front(log), self, n, G,
                 IF e.self = self /\ \A p \in seen : <<p[1], p[2]>> # <<e.text, e.k>>
                 THEN seen \cup {<<e.text, e.k, e.on>>} ELSE seen)

\* C15: the cache holds at most maxsize entries, and a call that repeats
\* one of the retriever's maxsize most recently used distinct (text, k)
\* pairs, on the graph that pair was last used on, is served from the cache
\* (the embedder is not called).
C15_BoundedLru ==
    /\ Len(cache) <= maxsize
    /\ (Answered /\ answer.err = "none") =>
          ( (\E p \in RecentPairs(Front(turns), answer.self, maxsize, answer.on, {}) :
                p[1] = answer.text /\ p[2] = answer.k)
            => answer.hit )

\* C16: in a computed result, of two events with the same similarity to the
\* query the one inserted earlier comes first.
C16_TiesInInsertionOrder ==
    (Answered /\ ~answer.hit /\ answer.err = "none") =>
        \A i, j \in 1..Len(answer.result) :
            (i < j /\ SimEq(Similarity(answer.result[i], answer.text),
                            Similarity(answer.result[j], answer.text)))
            => Position(answer.on, answer.result[i].id) < Position(answer.on, answer.result[j].id)

(***************************************************************************)
(* SpecMemories: chat turns of several users and the memories              *)
(* generate_q_response retrieves for them.  `graph` is the module-level    *)
(* mg of q_core_modules/q_api.py, `memoryFile` the q_memory.json beside    *)
(* that module, `users[u]` the Event Graph of user u (QPFAssistant.mg).    *)
(***************************************************************************)
UserNames == {"u1", "u2"}
MAX_MEMORIES == 3

InitMemories ==
    /\ memoryFile \in {AbsentFile, TornFile, save_json(StoredGraph)}
    /\ graph = EmptyGraph
    /\ pc = "importing"
    /\ users = [u \in UserNames |-> IF u = "u1" THEN EarlierGraph ELSE EmptyGraph]
    /\ cache = NoCache
    /\ answer = NoAnswer
    /\ calls = 0
    /\ nextUuid = 1
    /\ clock = 1
    /\ err = "none"
    /\ turns = <<>>
    /\ savedGraph = EmptyGraph /\ loaded = NotLoaded
    /\ weightsFile = AbsentFile /\ restarts = 0
    /\ field = NoField /\ writing = NotWriting /\ threads = NoThreads
    /\ BusIdle /\ SelfIdle

MemoriesFrame == <<memoryFile, savedGraph, loaded, weightsFile, restarts, clock, err,
                   field, writing, threads, turns, busVars, selfVars>>

\* `from q_core_modules.q_api import generate_q_response` (main.py line 88)
\* runs q_api lines 24-33 once: the guarded load of the module's graph.
ImportQApi ==
    /\ pc = "importing"
    /\ graph' = InitialGraph(memoryFile)
    /\ pc' = "serving"
    /\ UNCHANGED <<users, cache, answer, calls, nextUuid, MemoriesFrame>>

\* retriever.retrieve_semantic(user_text, 3) of line 46, through the
\* lru_cache: the exception it raises or the list it returns, and the cache
\* after the call.  With fault the embedder raises when it is called, which
\* a call served from the cache does not do.
Retrieval(text, fault) ==
    LET key == <<"retriever", text, MAX_MEMORIES>>
        computed == retrieve_semantic(graph, text, MAX_MEMORIES)
    IN  IF CacheIndex(key) # {}
        THEN LET i == CHOOSE j \in CacheIndex(key) : TRUE
             IN  { [err |-> "none", result |-> cache[i].value, cache |-> Touch(i)] }
        ELSE IF fault
        THEN { [err |-> "RuntimeError", result |-> <<>>, cache |-> cache] }
        ELSE IF computed.err # "none"
        THEN { [err |-> computed.err, result |-> <<>>, cache |-> cache] }
        ELSE { [err |-> "none", result |-> r, cache |-> Insert(key, r)] : r \in computed.results }

Memories_unguarded(text, fault) ==
    { [memories |-> r.result, cache |-> r.cache, raised |-> r.err # "none", err |-> r.err] :
        r \in Retrieval(text, fault) }

\* generate_q_response lines 44-55: the memories put into the prompt, and
\* the cache after the call.  An exception of the retrieval is swallowed
\* by the try/except Exception of lines 45-55 and memory_block stays empty.
Memories(text, fault) ==
    { [memories |-> r.result, cache |-> r.cache, raised |-> r.err # "none", err |-> "none"] :
        r \in Retrieval(text, fault) }

\* chat_endpoint for user u: QPFAssistant(user_dir).chat(text), of which the
\* retrieval (line 333) and the two add_event calls (lines 409-410) on the
\* user's own graph are kept.  generate_q_response returns the model's text
\* or, when the request to the model fails, its error text (lines 73-94);
\* an exception that left it would leave chat before the add_event calls.
ChatAs(u, text, fault) ==
    /\ pc = "serving"
    /\ calls < MaxCalls
    /\ calls' = calls + 1
    /\ \E m \in Memories(text, fault) :
         /\ answer' = [op |-> "chat", user |-> u, text |-> text, own |-> users[u],
                       memories |-> m.memories, fault |-> fault, raised |-> m.raised,
                       err |-> m.err, on |-> graph,
                       response |-> IF m.err = "none" THEN "reply" ELSE "none"]
         /\ cache' = m.cache
         /\ users' = IF m.err # "none" THEN users
                     ELSE [users EXCEPT ![u] =
                            AddEvents(@,
                              << [ id |-> nextUuid, timestamp |-> UtcNow(clock),
                                   type |-> "user_input",
                                   payload |-> UserPayload(text, 2429, TRUE, 0, <<500>>) ],
                                 [ id |-> nextUuid + 1, timestamp |-> UtcNow(clock),
                                   type |-> "q_response",
                                   payload |-> ResponsePayload("reply") ] >>)]
    /\ nextUuid' = nextUuid + 2
    /\ UNCHANGED <<graph, pc, MemoriesFrame>>

NextMemories ==
    \/ ImportQApi
    \/ \E u \in UserNames, text \in Queries, fault \in BOOLEAN : ChatAs(u, text, fault)

SpecMemories == InitMemories /\ [][NextMemories]_vars

\* C17: every memory retrieved during a chat turn of user U is an event of
\* U's own Event Graph.
C17_OwnMemoriesOnly ==
    answer.op = "chat" =>
        \A i \in DOMAIN answer.memories :
            \E n \in NodeSet(answer.own) : answer.own.event[n] = answer.memories[i]

(***************************************************************************)
(* MemoryGraph.retrieve and MemoryGraph.related                            *)
(***************************************************************************)
\* filter_fn: the predicates callers pass, by name.
Predicates == {"is_user_input", "any"}

filter_fn(pred, ev) == IF pred = "is_user_input" THEN ev.type = "user_input" ELSE TRUE

\* matches[:max_results]
Slice(seq, stop) ==
    IF stop >= Len(seq) THEN seq
    ELSE IF stop >= 0 THEN SubSeq(seq, 1, stop)
    ELSE SubSeq(seq, 1, IF Len(seq) + stop > 0 THEN Len(seq) + stop ELSE 0)

retrieve_all(G, pred, max_results) ==
    LET matches == SelectSeq(G.nodes, LAMBDA n : filter_fn(pred, G.event[n]))
    IN  IF SortRaises(G, matches) THEN [err |-> "TypeError", result |-> <<>>, g |-> G]
        ELSE LET sorted == SortNewestFirst(G, matches)
             IN  [ err |-> "none", g |-> G,
                   result |-> [i \in 1..Len(sorted) |-> G.event[sorted[i]]] ]

\* retrieve, lines 61-67: the matching events in node order, sorted by
\* timestamp with reverse=True, cut to max_results.  The sort is of the new
\* list; g is the graph after the call.
retrieve(G, pred, max_results) ==
    LET matches == SelectSeq(G.nodes, LAMBDA n : filter_fn(pred, G.event[n]))
    IN  IF SortRaises(G, matches) THEN [err |-> "TypeError", result |-> <<>>, g |-> G]
        ELSE LET sorted == Slice(SortNewestFirst(G, matches), max_results)
             IN  [ err |-> "none", g |-> G,
                   result |-> [i \in 1..Len(sorted) |-> G.event[sorted[i]]] ]

Successors(G, S) == { n \in NodeSet(G) : \E s \in S : <<s, n>> \in DOMAIN G.edges }

\* nx.single_source_shortest_path_length(G, source, cutoff): the dict of
\* distances, built level by level from nodes not seen before.
RECURSIVE shortest_path_length(_, _, _, _, _)
shortest_path_length(G, lengths, frontier, level, cutoff) ==
    LET found == Successors(G, frontier) \ DOMAIN lengths
    IN  IF found = {} \/ cutoff <= level THEN lengths
        ELSE shortest_path_length(G,
                 [n \in DOMAIN lengths \cup found |->
                     IF n \in found THEN level + 1 ELSE lengths[n]],
                 found, level + 1, cutoff)

related_with_root(G, event_id, depth) ==
    IF ~Has(G, event_id) THEN [err |-> "KeyError", result |-> <<>>]
    ELSE LET lengths == shortest_path_length(G, [n \in {event_id} |-> 0], {event_id}, 0, depth)
             keys == SelectSeq(G.nodes, LAMBDA n : n \in DOMAIN lengths)
         IN  [err |-> "none", result |-> [i \in 1..Len(keys) |-> G.event[keys[i]]]]

\* related, lines 74-80: one event per key of the dict other than the root.
\* The list is given here in node order; the order of the dict's keys is
\* the order of discovery.
related(G, event_id, depth) ==
    IF ~Has(G, event_id) THEN [err |-> "KeyError", result |-> <<>>]
    ELSE LET lengths == shortest_path_length(G, [n \in {event_id} |-> 0], {event_id}, 0, depth)
             keys == SelectSeq(G.nodes, LAMBDA n : n \in DOMAIN lengths /\ n # event_id)
         IN  [err |-> "none", result |-> [i \in 1..Len(keys) |-> G.event[keys[i]]]]

(***************************************************************************)
(* SpecQuery: a MemoryGraph that is built and queried                      *)
(***************************************************************************)
MaxDepth == 2

Retrieve(pred, max_results) ==
    /\ calls < MaxCalls
    /\ calls' = calls + 1
    /\ LET r == retrieve(graph, pred, max_results)
       IN  /\ answer' = [ op |-> "retrieve", pred |-> pred, max_results |-> max_results,
                          on |-> graph, after |-> r.g, err |-> r.err, result |-> r.result ]
           /\ graph' = r.g
    /\ UNCHANGED <<err, memoryFile, savedGraph, loaded, cache, users, busVars, selfVars,
                   weightsFile, pc, clock, nextUuid, restarts, turns, field, writing, threads>>

Related(event_id, depth) ==
    /\ calls < MaxCalls
    /\ calls' = calls + 1
    /\ LET r == related(graph, event_id, depth)
       IN  answer' = [ op |-> "related", event_id |-> event_id, depth |-> depth,
                       on |-> graph, err |-> r.err, result |-> r.result ]
    /\ UNCHANGED <<graph, err, memoryFile, savedGraph, loaded, cache, users, busVars, selfVars,
                   weightsFile, pc, clock, nextUuid, restarts, turns, field, writing, threads>>

NextQuery ==
    \/ \E ev \in EventsOn(NaiveTimes) : AddEvent(ev)
    \/ \E src, dst \in Ids, r \in Relations : LinkEvents(src, dst, r)
    \/ \E pred \in Predicates, max_results \in 0..MaxK : Retrieve(pred, max_results)
    \/ \E event_id \in Ids \cup {AbsentId}, depth \in 0..MaxDepth : Related(event_id, depth)

SpecQuery == Init /\ [][NextQuery]_vars

Matching(G, pred) == { G.event[n] : n \in { x \in NodeSet(G) : filter_fn(pred, G.event[x]) } }

Range(seq) == { seq[i] : i \in DOMAIN seq }

NoRepeats(seq) == \A i, j \in DOMAIN seq : seq[i] = seq[j] => i = j

RECURSIVE Walk(_, _, _)
Walk(G, root, k) == IF k = 0 THEN {root} ELSE Successors(G, Walk(G, root, k - 1))

Within(G, root, depth) == UNION { Walk(G, root, k) : k \in 1..depth }

\* C19: related(event_id, depth) raises KeyError when event_id is not a node,
\* and otherwise returns, each once, exactly the events of the nodes other
\* than the root that a walk of 1..depth edges from the root reaches.
C19_Related ==
    answer.op = "related" =>
        IF ~Has(answer.on, answer.event_id)
        THEN answer.err = "KeyError"
        ELSE /\ answer.err = "none"
             /\ NoRepeats(answer.result)
             /\ Range(answer.result) =
                    { answer.on.event[n] :
                        n \in Within(answer.on, answer.event_id, answer.depth) \ {answer.event_id} }

\* A related call whose root lies on a cycle shorter than the depth and that
\* returned something.
C19_Witness ==
    /\ answer.op = "related"
    /\ Has(answer.on, answer.event_id)
    /\ answer.event_id \in Within(answer.on, answer.event_id, answer.depth)
    /\ answer.event_id \notin Walk(answer.on, answer.event_id, 1)
    /\ answer.result # <<>>

\* The events of G were inserted with timestamps that never decrease.
NonDecreasing(G) ==
    \A i, j \in 1..Len(G.nodes) :
        i < j => /\ Comparable(Timestamp(G, G.nodes[i]), Timestamp(G, G.nodes[j]))
                 /\ ~TsLess(Timestamp(G, G.nodes[j]), Timestamp(G, G.nodes[i]))

\* C20: while every call so far inserted a new event and the timestamps never
\* decrease in insertion order, add_event adds the one edge a store with a
\* cached last-inserted id adds: from the most recently inserted event to
\* the new one.
C20_LastInsertedLink ==
    [][ ( /\ Len(graph'.nodes) = Len(graph.nodes) + 1
          /\ graph.nodes # <<>>
          /\ calls = Len(graph.nodes)
          /\ NonDecreasing(graph') )
        => DOMAIN graph'.edges =
             DOMAIN graph.edges \cup
                 {<<graph.nodes[Len(graph.nodes)], graph'.nodes[Len(graph'.nodes)]>>} ]_vars

(***************************************************************************)
(* SpecSchedulers: the four background loops, each in its daemon thread.   *)
(* pc[s] is the position of the thread of scheduler s:                     *)
(*   "created"  the thread object exists, start() not yet called           *)
(*   "top"      at the loop condition                                      *)
(*   "task"     inside the task of this iteration                          *)
(*   "sleep"    inside time.sleep(interval)                                *)
(*   "returned" the loop condition was false, the thread function returned *)
(*   "crashed"  an exception left the thread function                      *)
(***************************************************************************)
Schedulers == {"sensor", "meta", "nightly", "weekly"}

\* The loops whose task call stands inside try/except Exception.
Guarded == {"sensor", "weekly"}

\* The task of one iteration returns or raises an Exception (a failed file
\* write, a raising reflection_fn, an add_event that raises).
Outcomes == {"returns", "raises"}

InitSchedulers ==
    /\ pc = [s \in Schedulers |-> "created"]
    /\ stop_event = FALSE
    /\ answer = NoAnswer
    /\ calls = 0
    /\ err = "none"
    /\ graph = EmptyGraph
    /\ memoryFile = AbsentFile /\ savedGraph = EmptyGraph /\ loaded = NotLoaded
    /\ weightsFile = AbsentFile /\ clock = 0 /\ nextUuid = 0 /\ restarts = 0
    /\ turns = <<>> /\ field = NoField /\ writing = NotWriting /\ threads = NoThreads
    /\ cache = NoCache /\ users = NoUsers /\ subscribers = NoSubscribers /\ SelfIdle

SchedulersFrame == <<graph, memoryFile, savedGraph, loaded, weightsFile, clock, nextUuid,
                     restarts, turns, field, writing, threads, cache, users, subscribers,
                     selfVars>>

\* start(): threading.Thread(target=loop, daemon=True).start()
Start(s) ==
    /\ pc[s] = "created"
    /\ pc' = [pc EXCEPT ![s] = "top"]
    /\ UNCHANGED <<stop_event, answer, calls, err, SchedulersFrame>>

\* The loop condition: `while True`, and for MetaTicker
\* `while not self._stop_event.is_set()`.
LoopCondition(s) == IF s = "meta" THEN ~stop_event ELSE TRUE

Iterate(s) ==
    /\ pc[s] = "top"
    /\ pc' = [pc EXCEPT ![s] = IF LoopCondition(s) THEN "task" ELSE "returned"]
    /\ UNCHANGED <<stop_event, answer, calls, err, SchedulersFrame>>

\* Where the thread is after its task ended with the given outcome.
AfterTask(s, outcome) ==
    IF outcome = "raises" /\ s \notin Guarded THEN "crashed" ELSE "sleep"

\* sample_sensors(), tick(), the window test with batch_run(), summarize()
RunTask(s, outcome) ==
    /\ pc[s] = "task"
    /\ calls < MaxCalls
    /\ calls' = calls + 1
    /\ pc' = [pc EXCEPT ![s] = AfterTask(s, outcome)]
    /\ answer' = [op |-> "task", scheduler |-> s, outcome |-> outcome]
    /\ UNCHANGED <<stop_event, err, SchedulersFrame>>

\* time.sleep(interval) returns
Wake(s) ==
    /\ pc[s] = "sleep"
    /\ pc' = [pc EXCEPT ![s] = "top"]
    /\ UNCHANGED <<stop_event, answer, calls, err, SchedulersFrame>>

\* The owner asks scheduler s to stop.  Only MetaTicker defines stop();
\* the other three classes have no such attribute.
Stop(s) ==
    /\ IF s = "meta"
       THEN /\ stop_event' = TRUE
            /\ answer' = [op |-> "stop", scheduler |-> s, err |-> "none"]
       ELSE /\ answer' = [op |-> "stop", scheduler |-> s, err |-> "AttributeError"]
            /\ UNCHANGED stop_event
    /\ UNCHANGED <<pc, calls, err, SchedulersFrame>>

NextSchedulers ==
    \E s \in Schedulers :
        \/ Start(s)
        \/ Iterate(s)
        \/ \E outcome \in Outcomes : RunTask(s, outcome)
        \/ Wake(s)
        \/ Stop(s)

SpecSchedulers == InitSchedulers /\ [][NextSchedulers]_vars

\* C21: an exception raised by a scheduler's task does not end its loop (the
\* thread goes on to its sleep), and no other scheduler's thread changes
\* position because of it.
C21_LoopSurvivesFault ==
    [][ \A s \in Schedulers :
          (pc[s] = "task" /\ pc'[s] # "task" /\ answer'.op = "task" /\ answer'.outcome = "raises")
          => /\ pc'[s] = "sleep"
             /\ \A o \in Schedulers \ {s} : pc'[o] = pc[o] ]_vars

\* C22: a stop request is accepted by every scheduler, and once the stop
\* signal is set no iteration of the task starts.
C22_StopHonoured ==
    /\ [](answer.op = "stop" => answer.err = "none")
    /\ [][ \A s \in Schedulers :
             (stop_event /\ s = "meta") => ~(pc[s] = "top" /\ pc'[s] = "task") ]_vars

(***************************************************************************)
(* CounterfactualEngine                                                    *)
(***************************************************************************)
\* copy.deepcopy(self.mg): a MemoryGraph of equal value that shares nothing
\* with the live one.  `shared` tells whether a change of the copy is a
\* change of the live graph.
clone_state_alias(G) == [g |-> G, shared |-> TRUE]

clone_state(G) == [g |-> G, shared |-> FALSE]

AnchorPayload(anchor, delta) ==
    PyDict([k \in {"anchor", "delta"} |->
        IF k = "anchor" THEN PyStr(anchor) ELSE PyFloat(delta)])

CollapsePayload == PyDict([k \in {"counterfactual"} |-> PyBool(TRUE)])

\* The events run_branch adds, lines 41-50: one anchor_tweak per modifier in
\* dict order, then one collapse; ids are fresh uuids, timestamps utcnow.
BranchEvents(modifiers, uuid, now) ==
    [i \in 1..(Len(modifiers) + 1) |->
        IF i <= Len(modifiers)
        THEN [ id |-> uuid + i - 1, timestamp |-> UtcNow(now), type |-> "anchor_tweak",
               payload |-> AnchorPayload(modifiers[i].anchor, modifiers[i].delta) ]
        ELSE [ id |-> uuid + i - 1, timestamp |-> UtcNow(now), type |-> "collapse",
               payload |-> CollapsePayload ]]

\* run_branch up to the score: the clone after the events were added, and
\* the live graph after the call.
run_branch(G, modifiers, uuid, now) ==
    LET mg_copy == clone_state(G)
        after == AddEvents(mg_copy.g, BranchEvents(modifiers, uuid, now))
    IN  [ clone |-> after, live |-> IF mg_copy.shared THEN after ELSE G ]

\* batch_run: the branches in sequence, each from the live graph as the
\* branch before left it.
RECURSIVE batch_run(_, _, _, _)
batch_run(G, modifier_sets, uuid, now) ==
    IF modifier_sets = <<>> THEN [live |-> G, clones |-> <<>>]
    ELSE LET first == run_branch(G, Head(modifier_sets), uuid, now)
             rest == batch_run(first.live, Tail(modifier_sets),
                               uuid + Len(Head(modifier_sets)) + 1, now)
         IN  [live |-> rest.live, clones |-> <<first.clone>> \o rest.clones]

\* The test of line 99.
InWindow(start_hour, end_hour, h) ==
    (start_hour <= h /\ h < 24) \/ (0 <= h /\ h < end_hour)

(***************************************************************************)
(* SpecNightly: the nightly loop of one CounterfactualEngine over a live   *)
(* graph.  clock is the UTC hour; pc holds the loop's position and the     *)
(* arguments of start_nightly.                                             *)
(***************************************************************************)
HoursPerDay == 24
Hours == 0..(HoursPerDay - 1)

Modifiers == { <<>>,
               <<[anchor |-> "calm", delta |-> "0.5"]>>,
               <<[anchor |-> "calm", delta |-> "0.5"], [anchor |-> "joy", delta |-> "-0.1"]>> }

NightlyModifierSets == << <<[anchor |-> "calm", delta |-> "0.5"]>> >>

InitNightly ==
    /\ \E start_hour \in Hours, end_hour \in Hours :
          pc = [at |-> "top", start_hour |-> start_hour, end_hour |-> end_hour]
    /\ clock \in Hours
    /\ graph \in {EmptyGraph, EarlierGraph}
    /\ answer = NoAnswer
    /\ calls = 0
    /\ nextUuid = 1
    /\ err = "none"
    /\ memoryFile = AbsentFile /\ savedGraph = EmptyGraph /\ loaded = NotLoaded
    /\ weightsFile = AbsentFile /\ restarts = 0
    /\ turns = <<>> /\ field = NoField /\ writing = NotWriting /\ threads = NoThreads
    /\ cache = NoCache /\ users = NoUsers /\ BusIdle /\ SelfIdle

NightlyFrame == <<err, memoryFile, savedGraph, loaded, weightsFile, restarts, turns, field,
                  writing, threads, cache, users, busVars, selfVars>>

\* One pass of _loop, lines 96-100.
NightlyPass ==
    /\ pc.at = "top"
    /\ calls < MaxCalls
    /\ calls' = calls + 1
    /\ pc' = [pc EXCEPT !.at = "sleep"]
    /\ IF InWindow(pc.start_hour, pc.end_hour, clock)
       THEN LET r == batch_run(graph, NightlyModifierSets, nextUuid, clock)
            IN  /\ graph' = r.live
                /\ nextUuid' = nextUuid + 2
                /\ answer' = [ op |-> "nightly", h |-> clock, ran |-> TRUE,
                               before |-> graph, after |-> r.live, clones |-> r.clones ]
       ELSE /\ answer' = [ op |-> "nightly", h |-> clock, ran |-> FALSE,
                           before |-> graph, after |-> graph, clones |-> <<>> ]
            /\ UNCHANGED <<graph, nextUuid>>
    /\ UNCHANGED <<clock, NightlyFrame>>

\* time.sleep(interval_seconds), one hour by default
NightlySleep ==
    /\ pc.at = "sleep"
    /\ pc' = [pc EXCEPT !.at = "top"]
    /\ clock' = (clock + 1) % HoursPerDay
    /\ UNCHANGED <<graph, answer, calls, nextUuid, NightlyFrame>>

\* A direct call of run_branch by the owner of the engine.
RunBranch(modifiers) ==
    /\ calls < MaxCalls
    /\ calls' = calls + 1
    /\ LET r == run_branch(graph, modifiers, nextUuid, clock)
       IN  /\ graph' = r.live
           /\ answer' = [ op |-> "run_branch", h |-> clock, ran |-> TRUE,
                          before |-> graph, after |-> r.live, clones |-> <<r.clone>> ]
    /\ nextUuid' = nextUuid + Len(modifiers) + 1
    /\ UNCHANGED <<pc, clock, NightlyFrame>>

NextNightly ==
    \/ NightlyPass
    \/ NightlySleep

SpecNightly == InitNightly /\ [][NextNightly]_vars

\* SpecBranches: an engine whose nightly loop was started with the default
\* window, and whose owner also calls run_branch.
DefaultStartHour == 22
DefaultEndHour == 6

InitBranches ==
    /\ InitNightly
    /\ pc.start_hour = DefaultStartHour
    /\ pc.end_hour = DefaultEndHour

NextBranches ==
    \/ NightlyPass
    \/ NightlySleep
    \/ \E modifiers \in Modifiers : RunBranch(modifiers)

SpecBranches == InitBranches /\ [][NextBranches]_vars

\* C23: a pass of the nightly loop at UTC hour h runs the batch exactly when
\* h lies in the window from start_hour (inclusive) to end_hour (exclusive),
\* which wraps past midnight when start_hour > end_hour.
C23_WindowOnly ==
    answer.op = "nightly" =>
        ( answer.ran <=>
            IF pc.start_hour <= pc.end_hour
            THEN pc.start_hour <= answer.h /\ answer.h < pc.end_hour
            ELSE pc.start_hour <= answer.h \/ answer.h < pc.end_hour )

Hypothetical(G) == { n \in NodeSet(G) : G.event[n].type \in {"anchor_tweak", "collapse"} }

\* C24: after run_branch or batch_run the live graph has the nodes, edges
\* and event records it had before, and the anchor_tweak and collapse events
\* of the branch are nodes of the clone only.
C24_LiveGraphUntouched ==
    (answer.op \in {"nightly", "run_branch"} /\ answer.ran) =>
        /\ answer.after = answer.before
        /\ \A i \in DOMAIN answer.clones :
              /\ Hypothetical(answer.clones[i]) # {}
              /\ Hypothetical(answer.clones[i]) \cap NodeSet(answer.after) = {}

\* A branch with two modifiers was run over a live graph that holds events.
C24_Witness ==
    /\ answer.op = "run_branch"
    /\ answer.before.nodes # <<>>
    /\ Cardinality(Hypothetical(answer.clones[1])) = 3
    /\ NodeSet(answer.before) \subseteq NodeSet(answer.clones[1])

\* C25: every event the sensor sampler appended while a turn's assistant was
\* the one it writes to is a node of the Event Graph that each later
\* completed turn starts from and of the graph that turn persists.
C25_SensorEventsReachTurns ==
    \A i, j \in DOMAIN turns :
        (i < j /\ turns[i].completed /\ turns[j].completed) =>
            \A id \in turns[i].sensed :
                /\ Has(turns[j].start.graph, id)
                /\ Has(turns[j].end.graph, id)

(***************************************************************************)
(* blackboard: the module-level registry, subscribe, publish and the       *)
(* Blackboard facade.  Event types and patterns are sequences of           *)
(* characters.                                                             *)
(***************************************************************************)
\* fnmatch.fnmatch(name, pat) for patterns of literal characters, '*' and
\* '?' (on POSIX normcase changes nothing).
RECURSIVE fnmatch(_, _)
fnmatch(name, pat) ==
    IF pat = <<>> THEN name = <<>>
    ELSE IF Head(pat) = "*"
         THEN \E k \in 0..Len(name) : fnmatch(SubSeq(name, k + 1, Len(name)), Tail(pat))
    ELSE IF name = <<>> THEN FALSE
    ELSE (Head(pat) = "?" \/ Head(pat) = Head(name)) /\ fnmatch(Tail(name), Tail(pat))

\* Listeners: a function that returns, a function that raises an Exception,
\* and a functools.partial object (no __name__ attribute) that raises.
Handlers == {"on_event", "failing", "partial_failing"}
Raises(fn) == fn \in {"failing", "partial_failing"}
HasName(fn) == fn # "partial_failing"

PatternIndex(registry, pattern) == { i \in DOMAIN registry : registry[i].pattern = pattern }

subscribe_replace(registry, pattern, fn) ==
    IF PatternIndex(registry, pattern) = {}
    THEN Append(registry, [pattern |-> pattern, listeners |-> <<fn>>])
    ELSE [i \in DOMAIN registry |->
            IF registry[i].pattern = pattern
            THEN [registry[i] EXCEPT !.listeners = <<fn>>]
            ELSE registry[i]]

\* _subscribers[event_pattern].append(fn) on the defaultdict(list)
subscribe(registry, pattern, fn) ==
    IF PatternIndex(registry, pattern) = {}
    THEN Append(registry, [pattern |-> pattern, listeners |-> <<fn>>])
    ELSE [i \in DOMAIN registry |->
            IF registry[i].pattern = pattern
            THEN [registry[i] EXCEPT !.listeners = Append(@, fn)]
            ELSE registry[i]]

\* The calls publish makes, in order: for every pattern that matches, every
\* listener of its list.
RECURSIVE Matched(_, _)
Matched(registry, event_type) ==
    IF registry = <<>> THEN <<>>
    ELSE (IF fnmatch(event_type, Head(registry).pattern)
          THEN [i \in DOMAIN Head(registry).listeners |->
                   [fn |-> Head(registry).listeners[i], pattern |-> Head(registry).pattern]]
          ELSE <<>>) \o Matched(Tail(registry), event_type)

\* The calls made before an exception leaves publish: the handler of lines
\* 31-32 formats fn.__name__, which raises AttributeError for a listener
\* without that attribute.
RECURSIVE Delivered(_)
Delivered(todo) ==
    IF todo = <<>> THEN [invoked |-> <<>>, err |-> "none"]
    ELSE IF Raises(Head(todo).fn) /\ ~HasName(Head(todo).fn)
         THEN [invoked |-> <<Head(todo)>>, err |-> "AttributeError"]
         ELSE LET rest == Delivered(Tail(todo))
              IN  [invoked |-> <<Head(todo)>> \o rest.invoked, err |-> rest.err]

publish(registry, event_type, payload) ==
    LET d == Delivered(Matched(registry, event_type))
    IN  [ invoked |-> [i \in DOMAIN d.invoked |->
                          [ fn |-> d.invoked[i].fn, pattern |-> d.invoked[i].pattern,
                            args |-> <<event_type, payload>> ]],
          err |-> d.err ]

(***************************************************************************)
(* SpecBus: Blackboard instances of one process.  `turns` logs the         *)
(* registrations with the instance they were made through; the answer of   *)
(* a publish keeps the log as it was at the call.                          *)
(***************************************************************************)
Buses == {"b1", "b2"}
Patterns == { <<"*">>, <<"a", "?">>, <<"b">> }
EventTypes == { <<"a", "b">>, <<"b">> }
Payloads == {ResponsePayload("x")}

InitBus ==
    /\ subscribers = NoSubscribers
    /\ stop_event = FALSE
    /\ answer = NoAnswer
    /\ turns = <<>>
    /\ calls = 0
    /\ err = "none"
    /\ graph = EmptyGraph
    /\ memoryFile = AbsentFile /\ savedGraph = EmptyGraph /\ loaded = NotLoaded
    /\ weightsFile = AbsentFile /\ pc = <<>> /\ clock = 0 /\ nextUuid = 0 /\ restarts = 0
    /\ field = NoField /\ writing = NotWriting /\ threads = NoThreads
    /\ cache = NoCache /\ users = NoUsers /\ SelfIdle

BusFrame == <<graph, err, memoryFile, savedGraph, loaded, weightsFile, pc, clock, nextUuid,
              restarts, field, writing, threads, cache, users, stop_event, selfVars>>

\* Blackboard.subscribe(pattern, fn) on instance bus
Subscribe(bus, pattern, fn) ==
    /\ calls < MaxCalls
    /\ calls' = calls + 1
    /\ subscribers' = subscribe(subscribers, pattern, fn)
    /\ turns' = Append(turns, [bus |-> bus, pattern |-> pattern, fn |-> fn])
    /\ UNCHANGED <<answer, BusFrame>>

\* Blackboard.publish(event_type, payload) on instance bus
Publish(bus, event_type, payload) ==
    /\ calls < MaxCalls
    /\ calls' = calls + 1
    /\ LET r == publish(subscribers, event_type, payload)
       IN  answer' = [ op |-> "publish", bus |-> bus, event_type |-> event_type,
                       payload |-> payload, invoked |-> r.invoked, err |-> r.err,
                       log |-> turns ]
    /\ UNCHANGED <<subscribers, turns, BusFrame>>

NextBus ==
    \/ \E bus \in Buses, pattern \in Patterns, fn \in Handlers : Subscribe(bus, pattern, fn)
    \/ \E bus \in Buses, event_type \in EventTypes, payload \in Payloads :
           Publish(bus, event_type, payload)

SpecBus == InitBus /\ [][NextBus]_vars

Registrations(pattern, fn) ==
    Cardinality({ i \in DOMAIN answer.log :
                    answer.log[i].pattern = pattern /\ answer.log[i].fn = fn })

Invocations(pattern, fn) ==
    Cardinality({ i \in DOMAIN answer.invoked :
                    answer.invoked[i].pattern = pattern /\ answer.invoked[i].fn = fn })

EveryMatchInvoked ==
    /\ \A pattern \in Patterns, fn \in Handlers :
          Invocations(pattern, fn) =
              IF fnmatch(answer.event_type, pattern) THEN Registrations(pattern, fn) ELSE 0
    /\ \A i \in DOMAIN answer.invoked :
          answer.invoked[i].args = <<answer.event_type, answer.payload>>

C27_HandlerFaultIsolated ==
    answer.op = "publish" => (answer.err = "none" /\ EveryMatchInvoked)

\* C28: publish on one Blackboard instance calls a handler under a pattern
\* no more often than it was subscribed under that pattern through this
\* instance.
C28_InstanceScoped ==
    answer.op = "publish" =>
        \A pattern \in Patterns, fn \in Handlers :
            Invocations(pattern, fn) <=
                Cardinality({ i \in DOMAIN answer.log : /\ answer.log[i].bus = answer.bus
                                                        /\ answer.log[i].pattern = pattern
                                                        /\ answer.log[i].fn = fn })

(***************************************************************************)
(* SpecField: the field step of chat (lines 285-314) applied turn after    *)
(* turn to a weight vector drawn from a bounded set.                       *)
(***************************************************************************)
\* Weights whose activations are 0, 0.112, 0.5 and 0.711; five weights of 0,
\* one of -2.09 and one of -8 give an entropy of exactly S_crit.
WeightValues == {-8000, -2090, 0, 900}

\* The collapse record of lines 300-311, as far as it depends on the
\* weights: old_w is self.w.copy() taken before collapse_weights is called.
CollapseLog(st, f) ==
    IF f.collapsed
    THEN [ collapse |-> TRUE, collapsed_index |-> f.collapsed_index, S |-> f.S,
           prev_weights |-> tolist(st.w), new_weights |-> tolist(f.state.w) ]
    ELSE [ collapse |-> FALSE ]

InitField ==
    /\ \E w \in [1..N -> WeightValues] :
          field = FieldState(Vector(w), Matrix(N, D, 1), Matrix(N, N, 1))
    /\ answer = NoAnswer
    /\ calls = 0
    /\ err = "none"
    /\ graph = EmptyGraph
    /\ memoryFile = AbsentFile /\ savedGraph = EmptyGraph /\ loaded = NotLoaded
    /\ weightsFile = AbsentFile /\ pc = <<>> /\ clock = 0 /\ nextUuid = 0 /\ restarts = 0
    /\ turns = <<>> /\ writing = NotWriting /\ threads = NoThreads
    /\ cache = NoCache /\ users = NoUsers /\ BusIdle
    /\ session = NewSession(N, D)
    /\ self_model = NoSelfModel /\ contextFile = AbsentFile

FieldTurn ==
    /\ calls < MaxCalls
    /\ calls' = calls + 1
    /\ LET f == FieldStep(field, session.alpha, session.S_crit)
       IN  /\ field' = f.state
           /\ weightsFile' = save_qpf_math_state(f.state.w, f.state.psi, f.state.W)
           /\ answer' = [ op |-> "chat", S |-> f.S, collapsed |-> f.collapsed,
                          collapsed_index |-> f.collapsed_index,
                          feedback |-> feedback_modulation(session.lambda_vec, session.F),
                          before |-> field.w.data, after |-> f.state.w.data,
                          collapse_log |-> CollapseLog(field, f) ]
    /\ UNCHANGED <<graph, err, memoryFile, savedGraph, loaded, pc, clock, nextUuid, restarts,
                   turns, writing, threads, cache, users, busVars, selfVars>>

NextField == FieldTurn

SpecField == InitField /\ [][NextField]_vars

\* C29: a turn collapses (the weights are replaced and a collapse record is
\* emitted) exactly when its entropy S is greater than S_crit; with S equal
\* to S_crit the weights stay and no record is emitted.
C29_CollapseIffAbove ==
    answer.op = "chat" =>
        /\ answer.collapsed <=> answer.S > SCrit
        /\ answer.collapse_log.collapse <=> answer.S > SCrit
        /\ answer.S <= SCrit => answer.after = answer.before
        /\ answer.S > SCrit => answer.after # answer.before

\* A turn whose entropy was exactly S_crit, and did not collapse.
C29_Witness ==
    /\ answer.op = "chat"
    /\ answer.S = SCrit
    /\ ~answer.collapsed
    /\ answer.after = answer.before

\* x is the fixed-point value of the exact quantity num / Scale.
Rounds(x, num) == Scale * x <= num /\ num < Scale * (x + 1)

\* C30: in a collapsing turn the new weights are (1 - alpha) * w_i for every
\* i other than the collapsed index and (1 - alpha) * w_i + alpha at the
\* collapsed index, and the record's prev_weights are the weights before the
\* call, its new_weights the weights after it.
C30_CollapseWeights ==
    (answer.op = "chat" /\ answer.collapsed) =>
        /\ Len(answer.after) = Len(answer.before)
        /\ \A i \in 1..Len(answer.before) :
              Rounds(answer.after[i] - (IF i = answer.collapsed_index + 1 THEN Alpha ELSE 0),
                     (Scale - Alpha) * answer.before[i])
        /\ answer.collapse_log.prev_weights.items = answer.before
        /\ answer.collapse_log.new_weights.items = answer.after

\* A collapse at an index other than the first, of weights that are not all
\* zero elsewhere.
C30_Witness ==
    /\ answer.op = "chat" /\ answer.collapsed
    /\ answer.collapsed_index > 0
    /\ \E i \in 1..Len(answer.before) :
          i # answer.collapsed_index + 1 /\ answer.before[i] # 0 /\ answer.after[i] # answer.before[i]
    /\ answer.collapse_log.prev_weights # answer.collapse_log.new_weights

\* The indices (counted from 0) at which a holds its maximum.
Maxima(a) == { i - 1 : i \in { k \in 1..Len(a) : \A j \in 1..Len(a) : a[j] <= a[k] } }

\* C31: the collapse index of a turn is the lowest of the indices at which
\* the activation of the turn's weights is the maximum activation.
C31_LowestMaximum ==
    answer.op = "chat" =>
        /\ answer.collapsed_index \in Maxima(activation(answer.before))
        /\ \A i \in Maxima(activation(answer.before)) : answer.collapsed_index <= i
        /\ answer.collapsed => answer.collapse_log.collapsed_index = answer.collapsed_index

\* A collapsing turn whose maximum activation is held at several indices,
\* the first of them not being index 0.
C31_Witness ==
    /\ answer.op = "chat" /\ answer.collapsed
    /\ Cardinality(Maxima(activation(answer.before))) > 1
    /\ answer.collapsed_index > 0
    /\ answer.after[answer.collapsed_index + 1] # answer.before[answer.collapsed_index + 1]

\* C32: over the turns of a session lambda, F, alpha and S_crit keep the
\* values of the construction, psi and W are never changed, and a turn that
\* does not collapse leaves w as it was and persists the Field State it
\* started from.
C32_OnlyCollapseMutates ==
    /\ [](session = NewSession(N, D))
    /\ [][ /\ session' = session
           /\ field'.psi = field.psi /\ field'.W = field.W
           /\ ~answer'.collapsed =>
                 /\ field' = field
                 /\ weightsFile' = save_qpf_math_state(field.w, field.psi, field.W) ]_vars

\* The second or a later turn of a session did not collapse and left the
\* weights, not all zero, as they were.
C32_Witness ==
    /\ answer.op = "chat" /\ ~answer.collapsed
    /\ calls >= 2
    /\ field.w.data = answer.before
    /\ \E i \in 1..N : field.w.data[i] # 0
    /\ answer.feedback = 142
    /\ session = NewSession(N, D)

ConfiguredDimensions(st) ==
    /\ st.w.shape = <<N>>
    /\ st.psi.shape = <<N, D>>
    /\ st.W.shape = <<N, N>>

\* C33: the Field State of a turn that returns has the dimensions of the
\* construction (w of length N, psi N x D, W N x N); a turn over a persisted
\* state of other dimensions ends with an error.
C33_ConfiguredDimensions ==
    /\ pc = "returned" => ConfiguredDimensions(field)
    /\ (pc \in {"returned", "failed"} /\ ~ConfiguredDimensions(loaded.field)) =>
          (pc = "failed" /\ err = "ValueError")

\* C34: a chat turn in which the retrieval of memories raised, because the
\* embedding function raised or for any other reason, returns its response,
\* and no memory was put into its prompt.
C34_RetrievalFailureDegrades ==
    (answer.op = "chat" /\ answer.raised) =>
        /\ answer.err = "none"
        /\ answer.response = "reply"
        /\ answer.memories = <<>>

\* The embedding function raised in a turn whose retriever had events to
\* return, and the turn returned its response.
C34_Witness ==
    /\ answer.op = "chat"
    /\ answer.fault /\ answer.raised
    /\ answer.on.nodes # <<>>
    /\ answer.response = "reply"
    /\ Len(users[answer.user].nodes) >= 2

(***************************************************************************)
(* SpecEntropy: math_core.entropy applied to an activation vector drawn    *)
(* from a bounded set that holds components at, inside and outside [0, 1]. *)
(***************************************************************************)
ActivationValues == {-1200, 0, 500, 1000, 1500}

InitEntropy ==
    /\ answer \in { [op |-> "input", a |-> a] : a \in [1..N -> ActivationValues] }
    /\ cache = NoCache /\ users = NoUsers /\ BusIdle /\ SelfIdle
    /\ calls = 0
    /\ err = "none"
    /\ graph = EmptyGraph
    /\ memoryFile = AbsentFile /\ savedGraph = EmptyGraph /\ loaded = NotLoaded
    /\ weightsFile = AbsentFile /\ pc = <<>> /\ clock = 0 /\ nextUuid = 0 /\ restarts = 0
    /\ turns = <<>> /\ field = NoField /\ writing = NotWriting /\ threads = NoThreads

\* S = math_core.entropy(a).  `negative` tells that no term of the sum is
\* above 0 and one is below it, so that S is below 0 whatever its size.
Entropy ==
    /\ answer.op = "input"
    /\ answer' = [ op |-> "entropy", a |-> answer.a, S |-> entropy(answer.a),
                   negative |-> /\ \A i \in 1..Len(answer.a) : TermSign(answer.a[i]) <= 0
                                /\ \E i \in 1..Len(answer.a) : TermSign(answer.a[i]) < 0 ]
    /\ UNCHANGED <<graph, err, memoryFile, savedGraph, loaded, calls, weightsFile, pc, clock,
                   nextUuid, restarts, turns, field, writing, threads, cache, users,
                   busVars, selfVars>>

NextEntropy == Entropy

SpecEntropy == InitEntropy /\ [][NextEntropy]_vars

\* C35: entropy(a) is at least 0 for every activation vector a, also when
\* components of a are 1 or lie outside (0, 1).
C35_EntropyNonNegative ==
    answer.op = "entropy" => (answer.S >= 0 /\ ~answer.negative)

\* For activation vectors with every component strictly between -1 and 1
\* the entropy is at least 0.
NonNegativeInside ==
    (answer.op = "entropy" /\ \A i \in 1..Len(answer.a) : Abs(answer.a[i]) < Scale) =>
        (answer.S >= 0 /\ ~answer.negative)

(***************************************************************************)
(* SpecClocks: add_event calls on one MemoryGraph by callers whose events  *)
(* carry naive timestamps (the default, datetime.utcnow) and callers whose *)
(* events carry timezone-aware ones.  A TypeError of the call is caught by *)
(* the caller, as SensoryModule._run_loop does, and calls go on.           *)
(***************************************************************************)
InitClocks ==
    /\ graph = EmptyGraph
    /\ err = "none"
    /\ answer = NoAnswer
    /\ calls = 0
    /\ memoryFile = AbsentFile /\ savedGraph = EmptyGraph /\ loaded = NotLoaded
    /\ weightsFile = AbsentFile /\ pc = <<>> /\ clock = 0 /\ nextUuid = 0 /\ restarts = 0
    /\ turns = <<>> /\ field = NoField /\ writing = NotWriting /\ threads = NoThreads
    /\ cache = NoCache /\ users = NoUsers /\ BusIdle /\ SelfIdle

\* self.memory_graph.add_event(event) inside try/except (TypeError, Exception)
AddEventGuarded(ev) ==
    /\ calls < MaxCalls
    /\ calls' = calls + 1
    /\ LET r == add_event(graph, ev)
       IN  /\ graph' = r.g
           /\ err' = r.err
           /\ answer' = [ op |-> "add_event", event |-> ev, err |-> r.err,
                          before |-> graph, after |-> r.g ]
    /\ UNCHANGED <<memoryFile, savedGraph, loaded, weightsFile, pc, clock, nextUuid, restarts,
                   turns, field, writing, threads, cache, users, busVars, selfVars>>

NextClocks == \E ev \in EventsOn(NaiveTimes) \cup EventsOn(AwareTimes) : AddEventGuarded(ev)

SpecClocks == InitClocks /\ [][NextClocks]_vars

\* C36: an add_event call that raises leaves the graph as it was, and so
\* every event of the graph but the first inserted has an incoming
\* next_in_time edge.
C36_AddEventAllOrNothing ==
    /\ (answer.op = "add_event" /\ answer.err # "none") => answer.after = answer.before
    /\ \A i \in 2..Len(graph.nodes) : IncomingNext(graph, graph.nodes[i]) # {}

(***************************************************************************)
(* SpecReentrant: listeners that call subscribe while publish is           *)
(* delivering.  publish iterates _subscribers.items() (line 26): the dict  *)
(* iterator raises RuntimeError at its next step when the dict has changed *)
(* size since the iteration began; the inner loop iterates the live list   *)
(* of listeners.                                                           *)
(***************************************************************************)
\* The pattern the listener "registrar" subscribes on_event under when it
\* is called.
LatePattern == <<"b">>
ReentrantHandlers == {"on_event", "registrar"}

\* fn(event_type, payload): the registry after the call.
CallListener(registry, fn) ==
    IF fn = "registrar" THEN subscribe(registry, LatePattern, "on_event") ELSE registry

\* publish from the point where the dict iterator stands before entry i
\* (j = 0) or the list iterator before listener j of entry i; used is the
\* size of the dict when the iteration began.
RECURSIVE publish_loop(_, _, _, _, _, _)
publish_loop(registry, used, i, j, event_type, invoked) ==
    IF j = 0
    THEN IF Len(registry) # used
         THEN [invoked |-> invoked, err |-> "RuntimeError", registry |-> registry]
         ELSE IF i > Len(registry)
         THEN [invoked |-> invoked, err |-> "none", registry |-> registry]
         ELSE IF fnmatch(event_type, registry[i].pattern)
         THEN publish_loop(registry, used, i, 1, event_type, invoked)
         ELSE publish_loop(registry, used, i + 1, 0, event_type, invoked)
    ELSE IF j > Len(registry[i].listeners)
    THEN publish_loop(registry, used, i + 1, 0, event_type, invoked)
    ELSE LET fn == registry[i].listeners[j]
             called == Append(invoked, [fn |-> fn, pattern |-> registry[i].pattern])
         IN  IF Raises(fn) /\ ~HasName(fn)
             THEN [invoked |-> called, err |-> "AttributeError", registry |-> registry]
             ELSE publish_loop(CallListener(registry, fn), used, i, j + 1, event_type, called)

\* Blackboard.publish(event_type, payload) on instance bus, with listeners
\* that may subscribe.
PublishReentrant(bus, event_type, payload) ==
    /\ calls < MaxCalls
    /\ calls' = calls + 1
    /\ LET r == publish_loop(subscribers, Len(subscribers), 1, 0, event_type, <<>>)
       IN  /\ answer' = [ op |-> "publish", bus |-> bus, event_type |-> event_type,
                          payload |-> payload, invoked |-> r.invoked, err |-> r.err,
                          log |-> turns, before |-> subscribers ]
           /\ subscribers' = r.registry
    /\ UNCHANGED <<turns, BusFrame>>

NextReentrant ==
    \/ \E bus \in Buses, pattern \in Patterns, fn \in ReentrantHandlers :
           Subscribe(bus, pattern, fn)
    \/ \E bus \in Buses, event_type \in EventTypes, payload \in Payloads :
           PublishReentrant(bus, event_type, payload)

SpecReentrant == InitBus /\ [][NextReentrant]_vars

\* A listener called by this publish subscribed under a pattern that was
\* not registered when the publish began.
SubscribedDuringPublish ==
    /\ answer.op = "publish"
    /\ PatternIndex(answer.before, LatePattern) = {}
    /\ \E i \in DOMAIN answer.invoked : answer.invoked[i].fn = "registrar"

\* C37: a publish during which a listener subscribed under a pattern not
\* yet registered does not raise, and has called every handler registered
\* under a matching pattern before the publish began.
C37_SubscribeDuringPublish ==
    SubscribedDuringPublish =>
        /\ answer.err = "none"
        /\ \A pattern \in Patterns, fn \in ReentrantHandlers :
              fnmatch(answer.event_type, pattern) =>
                  Invocations(pattern, fn) >= Registrations(pattern, fn)

\* A publish whose listeners subscribe only under patterns that are
\* registered already returns and has called every matching handler.
SubscribeUnderKnownPattern ==
    (answer.op = "publish" /\ ~SubscribedDuringPublish) =>
        /\ answer.err = "none"
        /\ \A pattern \in Patterns, fn \in ReentrantHandlers :
              fnmatch(answer.event_type, pattern) =>
                  Invocations(pattern, fn) >= Registrations(pattern, fn)

\* C38: retrieve_semantic(text, k) on a graph that holds no event returns
\* the empty list and does not raise.
C38_EmptyGraphReturnsEmpty ==
    (Answered /\ answer.on.nodes = <<>>) =>
        (answer.err = "none" /\ answer.result = <<>>)

(***************************************************************************)
(* SelfModel: load, update and save.  The two list caps are scaled down.   *)
(***************************************************************************)
memory_cap == 3         \* stands for the 1000 of lines 45-46
arc_cap == 2            \* stands for the 7 of lines 48-49

UserTexts == {"What is happiness?", "I feel safe", "hi", " ", ""}

\* extract_topic, lines 71-80, on the texts above: the last word longer than
\* three characters, stripped of .!? and lowered; else the first word; else
\* "conversation" for the empty text.  A text of blanks only has no first
\* word: split()[0] raises IndexError.
extract_topic(text) ==
    CASE text = "What is happiness?" -> [err |-> "none", topic |-> "happiness"]
      [] text = "I feel safe" -> [err |-> "none", topic |-> "safe"]
      [] text = "hi" -> [err |-> "none", topic |-> "hi"]
      [] text = "" -> [err |-> "none", topic |-> "conversation"]
      [] OTHER -> [err |-> "IndexError", topic |-> "none"]

\* estimate_feeling, lines 60-69, on the texts above with the response "reply".
estimate_feeling(user_text, q_response) ==
    IF user_text = "I feel safe" THEN "uplifted" ELSE "neutral"

\* seq[-n:] for n > 0
LastN(seq, n) == IF Len(seq) <= n THEN seq ELSE SubSeq(seq, Len(seq) - n + 1, Len(seq))

\* json.dump(self.memories, f, indent=2)
MemoriesFile(memories) == JsonFile([top |-> "memories", items |-> memories])

\* SelfModel.__init__ and load, lines 7-24: the stored list, or [] when the
\* file is missing, empty or unreadable; arc starts empty.
NewSelfModel(file) ==
    [ memories |-> IF file.kind = "json" /\ file.doc.top = "memories" THEN file.doc.items ELSE <<>>,
      arc |-> <<>> ]

update_keep_oldest(sm, user_text, q_response, now) ==
    LET t == extract_topic(user_text)
        entry == [ timestamp |-> now, user_text |-> user_text, q_response |-> q_response,
                   topic |-> t.topic, feeling |-> estimate_feeling(user_text, q_response) ]
        grown == Append(sm.memories, entry)
        arc == Append(sm.arc, t.topic)
    IN  IF t.err # "none" THEN [sm |-> sm, err |-> t.err, entry |-> entry]
        ELSE [ sm |-> [ memories |-> IF Len(grown) > memory_cap
                                     THEN SubSeq(grown, 1, memory_cap) ELSE grown,
                        arc |-> IF Len(arc) > arc_cap THEN SubSeq(arc, 1, arc_cap) ELSE arc ],
               err |-> "none", entry |-> entry ]

\* update, lines 33-51, up to the call of save: the object after the call.
\* The topic and the feeling are computed before anything is appended.
update(sm, user_text, q_response, now) ==
    LET t == extract_topic(user_text)
        entry == [ timestamp |-> now, user_text |-> user_text, q_response |-> q_response,
                   topic |-> t.topic, feeling |-> estimate_feeling(user_text, q_response) ]
        grown == Append(sm.memories, entry)
        arc == Append(sm.arc, t.topic)
    IN  IF t.err # "none" THEN [sm |-> sm, err |-> t.err, entry |-> entry]
        ELSE [ sm |-> [ memories |-> IF Len(grown) > memory_cap
                                     THEN LastN(grown, memory_cap) ELSE grown,
                        arc |-> IF Len(arc) > arc_cap THEN LastN(arc, arc_cap) ELSE arc ],
               err |-> "none", entry |-> entry ]

\* A file written by save in an earlier process: n entries.
StoredMemories(n) ==
    MemoriesFile([i \in 1..n |->
        [ timestamp |-> i - 10, user_text |-> "hi", q_response |-> "reply",
          topic |-> "hi", feeling |-> "neutral" ]])

(***************************************************************************)
(* SpecSelfModel: one SelfModel over its file.  `loaded` keeps the list    *)
(* the object was constructed with, `turns` the entries of the update      *)
(* calls that returned, in call order.                                     *)
(***************************************************************************)
InitSelfModel ==
    /\ contextFile \in {AbsentFile, EmptyFile, TornFile} \cup
                        { StoredMemories(n) : n \in {1, memory_cap} }
    /\ self_model = NewSelfModel(contextFile)
    /\ loaded = [state |-> "self_model", memories |-> self_model.memories]
    /\ session = NoSession
    /\ turns = <<>>
    /\ answer = NoAnswer
    /\ calls = 0
    /\ clock = 1
    /\ err = "none"
    /\ graph = EmptyGraph
    /\ memoryFile = AbsentFile /\ savedGraph = EmptyGraph
    /\ weightsFile = AbsentFile /\ pc = <<>> /\ nextUuid = 0 /\ restarts = 0
    /\ field = NoField /\ writing = NotWriting /\ threads = NoThreads
    /\ cache = NoCache /\ users = NoUsers /\ BusIdle

\* SelfModel.update(user_text, q_response), with its save (lines 26-31 and
\* 52).  wfail: open or json.dump raises; save catches it and the file keeps
\* its content.
Update(user_text, q_response, wfail) ==
    /\ calls < MaxCalls
    /\ calls' = calls + 1
    /\ clock' = clock + 1
    /\ LET r == update(self_model, user_text, q_response, clock)
           wrote == r.err = "none" /\ ~wfail
       IN  /\ self_model' = r.sm
           /\ err' = r.err
           /\ turns' = IF r.err = "none" THEN Append(turns, r.entry) ELSE turns
           /\ contextFile' = IF wrote THEN MemoriesFile(r.sm.memories) ELSE contextFile
           /\ answer' = [ op |-> "update", err |-> r.err, wrote |-> wrote,
                          written |-> IF wrote THEN MemoriesFile(r.sm.memories) ELSE AbsentFile,
                          arc |-> IF r.err = "none" THEN LastN(r.sm.arc, 3) ELSE <<>> ]
    /\ UNCHANGED <<graph, memoryFile, savedGraph, loaded, weightsFile, pc, nextUuid, restarts,
                   field, writing, threads, cache, users, busVars, session>>

NextSelfModel ==
    \E user_text \in UserTexts, wfail \in BOOLEAN : Update(user_text, "reply", wfail)

SpecSelfModel == InitSelfModel /\ [][NextSelfModel]_vars

Topics(entries) == [i \in DOMAIN entries |-> entries[i].topic]

\* C39: memories holds at most memory_cap entries, the latest of the loaded
\* entries followed by the updates in call order; arc holds at most arc_cap
\* topics, the latest of the updates in call order; and the list a save
\* wrote is the list in memory.
C39_BoundedRecentHistory ==
    /\ Len(self_model.memories) <= memory_cap
    /\ self_model.memories = LastN(loaded.memories \o turns, memory_cap)
    /\ Len(self_model.arc) <= arc_cap
    /\ self_model.arc = LastN(Topics(turns), arc_cap)
    /\ (answer.op = "update" /\ answer.wrote) =>
          /\ answer.written = MemoriesFile(self_model.memories)
          /\ contextFile = answer.written

\* More updates returned than either list can hold, the oldest entry was
\* dropped, and the last save wrote the list.
C39_Witness ==
    /\ Len(turns) > memory_cap
    /\ Len(self_model.memories) = memory_cap
    /\ self_model.memories[1] = turns[Len(turns) - memory_cap + 1]
    /\ self_model.memories[1] # turns[1]
    /\ Len(self_model.arc) = arc_cap
    /\ answer.op = "update" /\ answer.wrote
    /\ contextFile.doc.items = self_model.memories

====
